---- MODULE Spec2Model ----
(***************************************************************************)
(* State-machine model of the retrieval-augmented generation pipeline of   *)
(* the document question-answering backend:                                *)
(*   - RAGService.indexDocument / _batchUpsert / queryDocuments            *)
(*     (backend/services/embeddingService.js, second half: ragService.js)  *)
(*   - the upload handlers that call indexDocument                         *)
(*     (routes/documents.js, routes/upload.js, documentController.js)      *)
(*   - the query route (routes/upload.js, second half: routes/query.js)    *)
(* The embedding provider, the vector index, the text splitter and the     *)
(* answer generator are external services: each call to one of them is a   *)
(* step whose outcome (a value or an exception) is chosen                  *)
(* nondeterministically.                                                   *)
(***************************************************************************)
EXTENDS Integers, Sequences, FiniteSets, TLC

(***************************************************************************)
(* Bounds of the model and constants of the program.                       *)
(***************************************************************************)
\* the splitter returns up to MaxBatches batches of chunks, and one chunk more
MaxBatches == 2
\* ... or a few chunks: up to SmallChunks
SmallChunks == 3
\* blank chunks may appear at the positions 0 .. MaxBlankPos-1 of a splitter output
MaxBlankPos == 2
\* const BATCH_SIZE = 50
BATCH_SIZE == 50
\* stats.dimension || 384
DefaultDim == 384

Min(a, b) == IF a <= b THEN a ELSE b
Max(a, b) == IF a >= b THEN a ELSE b

VARIABLES
  index,       \* the vector index: record id -> record {values, metadata}
  ipc,         \* position of the indexDocument run
  iDoc,        \* indexDocument: documentId
  iText,       \* indexDocument: text
  chunks,      \* indexDocument: const chunks
  ci,          \* indexDocument: loop variable i of the embedding loop
  vectors,     \* indexDocument: const vectors = []
  statsDim,    \* what describeIndexStats reported to the dimension check
  batchStart,  \* _batchUpsert: loop variable i
  calls,       \* number of calls this run issued to each external service
  upsertLog,   \* the upsert calls this run issued, in order: ids and outcome
  iResult,     \* value indexDocument returned
  iError,      \* message of the error indexDocument threw
  indexAtEntry,\* the vector index as it was when the run was entered
  qpc,         \* position of the queryDocuments call
  qQuestion,   \* queryDocuments: question
  qDocId,      \* queryDocuments: documentId
  qTopK,       \* queryDocuments: topK
  qOptions,    \* queryDocuments: queryOptions
  qMatches,    \* queryDocuments: results.matches
  qCalls,      \* number of calls this queryDocuments call issued
  qResult,     \* value queryDocuments returned
  qError,      \* message of the error queryDocuments threw
  docs,        \* the Document collection: document id -> stored record
  rpc,         \* position of the query route's handler
  req,         \* query route: the request (user, question, documentId, settings)
  rDocuments,  \* query route: const documents
  context,     \* query route: let context
  sources,     \* query route: let sources
  usedRAG,     \* query route: let usedRAG
  genCalls,    \* the contexts the answer generator was called with, in order
  response,    \* query route: the response sent
  upc,         \* position of the upload handler
  uRoute,      \* which upload handler runs
  uDocId,      \* upload: document._id
  uDocument,   \* upload: the in-memory document (the fields set after create)
  uIndexingSuccess, \* upload (routes/upload.js): let indexingSuccess
  uIndexingError,   \* upload (routes/upload.js): let indexingError
  uResponse,   \* upload: the response sent
  cpc,         \* position of the controller's queryDocuments handler
  cReq,        \* controller: req.body
  cTopChunks,  \* controller: const topChunks
  cGenCalls,   \* history: the contexts the controller called the generator with
  cResponse,   \* controller: the response sent
  firstRun,    \* history: what the first of two runs of indexDocument left
  runs,        \* the runs of indexDocument in progress at the same time
  deletions,   \* history: the deletions answered, with the ids they named
  sim,         \* the call of EmbeddingService.findSimilar: position and locals
  health       \* the GET /api/health handler: position, health object, probes

indexVars == <<index, ipc, iDoc, iText, chunks, ci, vectors, statsDim,
               batchStart, calls, upsertLog, iResult, iError, indexAtEntry>>

queryVars == <<qpc, qQuestion, qDocId, qTopK, qOptions, qMatches, qCalls,
               qResult, qError>>

routeVars == <<rpc, req, rDocuments, context, sources, usedRAG, genCalls,
               response>>

uploadVars == <<upc, uRoute, uDocId, uDocument, uIndexingSuccess,
                uIndexingError, uResponse>>

ctlVars == <<cpc, cReq, cTopChunks, cGenCalls, cResponse>>

auxVars == <<firstRun, runs, deletions, sim, health>>

\* the locals of the single run of indexDocument, without the index
runVars == <<ipc, iDoc, iText, chunks, ci, vectors, statsDim, batchStart,
             calls, upsertLog, iResult, iError, indexAtEntry>>

None == "none"

(***************************************************************************)
(* Strings are sequences of characters.  A text is its characters and the  *)
(* chunks the (external) splitter cuts it into: n chunks, those at the     *)
(* positions in blanks being empty or whitespace-only; rev tells the       *)
(* chunks of two texts apart.                                              *)
(***************************************************************************)
IsSpace(c) == c \in {" ", "\n"}

\* String.prototype.trim
RECURSIVE TrimStart(_)
TrimStart(str) ==
  IF str # <<>> /\ IsSpace(Head(str)) THEN TrimStart(Tail(str)) ELSE str

RECURSIVE TrimEnd(_)
TrimEnd(str) ==
  IF str # <<>> /\ IsSpace(str[Len(str)])
    THEN TrimEnd(SubSeq(str, 1, Len(str) - 1))
    ELSE str

Trim(str) == TrimEnd(TrimStart(str))

\* String.prototype.substring(0, n), for an integer n
Substring0(str, n) ==
  IF n <= 0 THEN <<>> ELSE SubSeq(str, 1, Min(n, Len(str)))

\* a string of n characters
Chars(n) == [k \in 1..n |-> "x"]

EmptyStr == ""
WhiteStr == " "

DocIds == {"d1", "d2"}

MkText(chars, n, blanks, rev) ==
  [chars |-> chars, n |-> n, blanks |-> blanks, rev |-> rev]

EmptyText == MkText(<<>>, 0, {}, 1)
WhiteText == MkText(<<" ", "\n">>, 0, {}, 1)

\* variant: the check without the trim, if (!text)
TextIsEmpty_NoTrim(text) == Len(text.chars) = 0

\* !text || text.trim().length === 0
TextIsEmpty(text) == Len(text.chars) = 0 \/ Len(Trim(text.chars)) = 0

\* splitter.splitText(text): the chunk at position i (from 0)
ChunkAt(text, i) ==
  IF i \in text.blanks
    THEN (IF i % 2 = 0 THEN WhiteStr ELSE EmptyStr)
    ELSE <<"chunk", text.rev, i>>

SplitText(text) == [k \in 1..text.n |-> ChunkAt(text, k - 1)]

\* variant: the check without the trim, if (!chunk)
ChunkIsEmpty_NoTrim(chunk) == chunk = EmptyStr

\* !chunk || chunk.trim().length === 0
ChunkIsEmpty(chunk) == chunk = EmptyStr \/ chunk = WhiteStr

(***************************************************************************)
(* Records.                                                                *)
(***************************************************************************)
\* `${documentId}_chunk_${i}`
VectorId(documentId, i) == <<documentId, "_chunk_", i>>

\* array.slice(0, n), for an integer n >= 0
Take(seq, n) == SubSeq(seq, 1, Min(n, Len(seq)))

\* the array embedQuery returns for a chunk: its length is dim
Embedding(chunk, dim) == [of |-> chunk, length |-> dim]

\* variant: the id numbered from 1, as the progress log of the loop is
MkVector_OneBased(documentId, i, chunk, embedding) ==
  [id |-> VectorId(documentId, i + 1),
   values |-> embedding,
   metadata |-> [documentId |-> documentId, chunkIndex |-> i, text |-> chunk]]

\* variant: the metadata carries a stamp of the run that wrote the record
MkVector_Stamped(documentId, i, chunk, embedding) ==
  [id |-> VectorId(documentId, i),
   values |-> embedding,
   metadata |-> [documentId |-> documentId, chunkIndex |-> i, text |-> chunk,
                 indexedAt |-> IF firstRun.done THEN 2 ELSE 1]]

\* vectors.push({ id, values, metadata: { documentId, chunkIndex, text } })
MkVector(documentId, i, chunk, embedding) ==
  [id |-> VectorId(documentId, i),
   values |-> embedding,
   metadata |-> [documentId |-> documentId, chunkIndex |-> i, text |-> chunk]]

\* vectors.map(v => v.id)
IdsOf(vs) == [k \in 1..Len(vs) |-> vs[k].id]

SeqRange(s) == {s[k] : k \in 1..Len(s)}

\* index.upsert(batch): a record replaces the record of the same id
UpsertInto(idx, batch) ==
  [id \in (DOMAIN idx) \cup SeqRange(IdsOf(batch)) |->
     IF id \in SeqRange(IdsOf(batch))
       THEN LET k == CHOOSE j \in 1..Len(batch) :
                       /\ batch[j].id = id
                       /\ \A l \in (j+1)..Len(batch) : batch[l].id # id
            IN [values |-> batch[k].values, metadata |-> batch[k].metadata]
       ELSE idx[id]]

\* variant: a slice one record too long, vectors.slice(i, i + BATCH_SIZE + 1)
BatchAt_OffByOne(vs, i) == SubSeq(vs, i + 1, Min(i + BATCH_SIZE + 1, Len(vs)))

\* vectors.slice(i, i + BATCH_SIZE)
BatchAt(vs, i) == SubSeq(vs, i + 1, Min(i + BATCH_SIZE, Len(vs)))

NoCalls ==
  [split |-> 0, embed |-> 0, embedFailed |-> 0, stats |-> 0, upsert |-> 0,
   query |-> 0]

EmptyIndex == [id \in {} |-> None]

\* what an earlier run indexDocument("d1", <a text of two chunks>) left in the index
PriorText == MkText(<<"o", "l", "d">>, 2, {}, 0)
PriorIndex ==
  UpsertInto(EmptyIndex,
    [k \in 1..2 |-> MkVector("d1", k - 1, ChunkAt(PriorText, k - 1),
                             Embedding(ChunkAt(PriorText, k - 1), DefaultDim))])

\* dimensions the embedding model may have, and the index may report (0: none reported)
EmbedDims == {DefaultDim, DefaultDim + 1}
StatsDims == {0, DefaultDim, DefaultDim + 1}

\* outcome of describeIndexStats(): it threw, or it reported a dimension
NoStats == [called |-> FALSE, threw |-> FALSE, dimension |-> 0]
StatsOutcomes ==
  {[called |-> TRUE, threw |-> TRUE, dimension |-> 0]} \cup
  {[called |-> TRUE, threw |-> FALSE, dimension |-> d] : d \in StatsDims}

(***************************************************************************)
(* RAGService.indexDocument                                                *)
(***************************************************************************)
IndexFail(msg) ==
  /\ ipc' = "failed"
  /\ iError' = msg

\* entry of indexDocument(documentId, text): the empty-text check
IndexDocumentEnter(documentId, text) ==
  /\ ipc \in {"idle", "returned", "failed"}
  /\ iDoc' = documentId
  /\ iText' = text
  /\ chunks' = <<>>
  /\ ci' = 0
  /\ vectors' = <<>>
  /\ statsDim' = NoStats
  /\ batchStart' = 0
  /\ calls' = NoCalls
  /\ upsertLog' = <<>>
  /\ iResult' = <<>>
  /\ IF TextIsEmpty(text)
       THEN IndexFail("Empty document text")
       ELSE ipc' = "split" /\ iError' = None
  /\ indexAtEntry' = index
  /\ UNCHANGED index

\* const chunks = await this.splitDocument(text)
SplitDocument ==
  /\ ipc = "split"
  /\ calls' = [calls EXCEPT !.split = @ + 1]
  /\ \/ /\ IndexFail("Split error")
        /\ UNCHANGED chunks
     \/ /\ chunks' = SplitText(iText)
        /\ IF Len(SplitText(iText)) = 0
             THEN IndexFail("No chunks created")
             ELSE ipc' = "embed" /\ UNCHANGED iError
  /\ UNCHANGED <<index, iDoc, iText, ci, vectors, statsDim, batchStart,
                 upsertLog, iResult, indexAtEntry>>

\* variant: the chunk's error is logged and the loop goes on
OnChunkError_Skip(msg) ==
  /\ ci' = ci + 1
  /\ UNCHANGED <<ipc, iError, vectors>>

\* catch (chunkErr) { throw chunkErr }, which the outer catch rethrows
OnChunkError(msg) ==
  /\ IndexFail(msg)
  /\ UNCHANGED <<ci, vectors>>

\* one iteration of the embedding loop
EmbedChunk ==
  /\ ipc = "embed"
  /\ ci < Len(chunks)
  /\ LET chunk == chunks[ci + 1] IN
       IF ChunkIsEmpty(chunk)
         THEN /\ ci' = ci + 1
              /\ UNCHANGED <<ipc, iError, vectors, calls>>
         ELSE \/ /\ calls' = [calls EXCEPT !.embed = @ + 1,
                                             !.embedFailed = @ + 1]
                    /\ \/ OnChunkError("Embedding failed")
                       \/ OnChunkError("Invalid embedding for chunk")
                 \/ \E dim \in EmbedDims :
                      /\ Len(vectors) > 0 => vectors[1].values.length = dim
                      /\ calls' = [calls EXCEPT !.embed = @ + 1]
                      /\ vectors' = Append(vectors,
                            MkVector(iDoc, ci, chunk, Embedding(chunk, dim)))
                      /\ ci' = ci + 1
                      /\ UNCHANGED <<ipc, iError>>
  /\ UNCHANGED <<index, iDoc, iText, chunks, statsDim, batchStart,
                 upsertLog, iResult, indexAtEntry>>

\* variant: the loop's end without the zero-vector check
EmbedDone_NoCheck ==
  /\ ipc = "embed"
  /\ ci = Len(chunks)
  /\ ipc' = "dimcheck"
  /\ UNCHANGED <<index, iDoc, iText, chunks, ci, vectors, statsDim,
                 batchStart, calls, upsertLog, iResult, iError, indexAtEntry>>

\* after the loop: if (vectors.length === 0) throw
EmbedDone ==
  /\ ipc = "embed"
  /\ ci = Len(chunks)
  /\ IF Len(vectors) = 0
       THEN IndexFail("No vectors created")
       ELSE ipc' = "dimcheck" /\ UNCHANGED iError
  /\ UNCHANGED <<index, iDoc, iText, chunks, ci, vectors, statsDim,
                 batchStart, calls, upsertLog, iResult, indexAtEntry>>

\* actualDim !== expectedDim, with expectedDim = stats.dimension || 384
DimensionMismatch(reported, vs) ==
  vs[1].values.length # (IF reported = 0 THEN DefaultDim ELSE reported)

\* the dimension check: its try block throws on a mismatch, and its own
\* catch block (descError) logs a warning and goes on
CheckDimension ==
  /\ ipc = "dimcheck"
  /\ calls' = [calls EXCEPT !.stats = @ + 1]
  /\ \E outcome \in StatsOutcomes : statsDim' = outcome
  /\ ipc' = "upsert"
  /\ batchStart' = 0
  /\ UNCHANGED <<index, iDoc, iText, chunks, ci, vectors, upsertLog,
                 iResult, iError, indexAtEntry>>

\* _batchUpsert: one iteration, await this.index.upsert(batch) and the delay
UpsertBatch ==
  /\ ipc = "upsert"
  /\ batchStart < Len(vectors)
  /\ calls' = [calls EXCEPT !.upsert = @ + 1]
  /\ LET batch == BatchAt(vectors, batchStart) IN
       \/ /\ index' = UpsertInto(index, batch)
          /\ upsertLog' = Append(upsertLog, [ids |-> IdsOf(batch), ok |-> TRUE])
          /\ batchStart' = batchStart + BATCH_SIZE
          /\ UNCHANGED <<ipc, iError>>
       \/ /\ upsertLog' = Append(upsertLog, [ids |-> IdsOf(batch), ok |-> FALSE])
          /\ IndexFail("Upsert error")
          /\ UNCHANGED <<index, batchStart>>
  /\ UNCHANGED <<iDoc, iText, chunks, ci, vectors, statsDim, iResult,
                 indexAtEntry>>

\* _batchUpsert returns; the 3 s wait; the verification, whose errors are
\* caught; return vectors.map(v => v.id)
VerifyAndReturn ==
  /\ ipc = "upsert"
  /\ batchStart >= Len(vectors)
  /\ \/ calls' = [calls EXCEPT !.stats = @ + 1]
     \/ calls' = [calls EXCEPT !.stats = @ + 1, !.query = @ + 1]
  /\ ipc' = "returned"
  /\ iResult' = IdsOf(vectors)
  /\ UNCHANGED <<index, iDoc, iText, chunks, ci, vectors, statsDim,
                 batchStart, upsertLog, iError, indexAtEntry>>

IndexSteps ==
  \/ SplitDocument
  \/ EmbedChunk
  \/ EmbedDone
  \/ CheckDimension
  \/ UpsertBatch
  \/ VerifyAndReturn

(***************************************************************************)
(* RAGService.queryDocuments                                               *)
(***************************************************************************)
\* a match the index returns: metadata may be missing, and its text may be
\* missing or empty (text = <<>>)
NoMetadata == [present |-> FALSE, documentId |-> None, text |-> <<>>]

MatchText(rank) ==
  [k \in 1..(((rank - 1) % 3) + 1) |->
     <<"a", "b", "c", "d", "e">>[((rank - 1) % 5) + 1]]

MkMatch(documentId, rank, kind) ==
  [id |-> VectorId(documentId, rank - 1),
   score |-> 100 - rank,
   metadata |->
     IF kind = "noMetadata" THEN NoMetadata
     ELSE [present |-> TRUE, documentId |-> documentId,
           text |-> IF kind = "noText" THEN <<>> ELSE MatchText(rank)]]

\* the records the index ranks for a question, best first: n records, of
\* document d1 or of d1 and d2 in turn, the one at rank noMeta without
\* metadata and the one at rank noText without text (0: none)
Pool(n, owners, noMeta, noText) ==
  [rank \in 1..n |->
     MkMatch(IF owners = "mixed" /\ rank % 2 = 0 THEN "d2" ELSE "d1",
             rank,
             IF rank = noMeta THEN "noMetadata"
             ELSE IF rank = noText THEN "noText" ELSE "text")]

Pools(maxLen, maxBad) ==
  {Pool(n, owners, noMeta, noText) :
     n \in 0..maxLen, owners \in {"d1", "mixed"},
     noMeta \in 0..maxBad, noText \in 0..maxBad}

\* this.index.query(queryOptions): the topK best records that pass the filter
IndexQuery(pool, options) ==
  Take(SelectSeq(pool,
         LAMBDA m : options.filter = None
                    \/ (m.metadata.present
                        /\ m.metadata.documentId = options.filter)),
       options.topK)

\* variant: the options never carry a filter
QueryOptions_NoFilter(documentId, topK) ==
  [topK |-> Max(topK, 10), filter |-> None]

\* { vector, topK: Math.max(topK, 10), includeMetadata: true, filter? }
QueryOptions(documentId, topK) ==
  [topK |-> Max(topK, 10),
   filter |-> IF documentId # None THEN documentId ELSE None]

\* m => ({ id, score, text: m.metadata.text, metadata: m.metadata })
ToChunk(m) ==
  [id |-> m.id, score |-> m.score, text |-> m.metadata.text,
   metadata |-> m.metadata]

MapSeq(seq, F(_)) == [k \in 1..Len(seq) |-> F(seq[k])]

\* m.metadata && m.metadata.text
HasText(m) == m.metadata.present /\ m.metadata.text # <<>>

\* variant: the slice taken before the filter
QueryResult_SliceFirst(matches, topK) ==
  MapSeq(SelectSeq(Take(matches, topK), HasText), ToChunk)

\* results.matches.filter(...).map(...) and texts.slice(0, topK)
QueryResult(matches, topK) ==
  Take(MapSeq(SelectSeq(matches, HasText), ToChunk), topK)

NoOptions == [topK |-> 0, filter |-> None]
NoQueryCalls == [embed |-> 0, query |-> 0, stats |-> 0]

QueryFail(msg) ==
  /\ qpc' = "failed"
  /\ qError' = msg

\* !question || question.trim().length === 0
QuestionIsEmpty(question) == Len(question) = 0 \/ Len(Trim(question)) = 0

\* entry of queryDocuments(question, documentId, topK): an empty question
\* returns []
QueryDocumentsEnter(question, documentId, topK) ==
  /\ qpc \in {"idle", "returned", "failed"}
  /\ qQuestion' = question
  /\ qDocId' = documentId
  /\ qTopK' = topK
  /\ qOptions' = NoOptions
  /\ qMatches' = <<>>
  /\ qCalls' = NoQueryCalls
  /\ qResult' = <<>>
  /\ qError' = None
  /\ qpc' = IF QuestionIsEmpty(question) THEN "returned" ELSE "embed"

\* const queryEmbedding = await this.embeddings.embedQuery(question)
EmbedQuestion ==
  /\ qpc = "embed"
  /\ qCalls' = [qCalls EXCEPT !.embed = @ + 1]
  /\ \/ /\ QueryFail("Embedding failed")
        /\ UNCHANGED qOptions
     \/ /\ qOptions' = QueryOptions(qDocId, qTopK)
        /\ qpc' = "query"
        /\ UNCHANGED qError
  /\ UNCHANGED <<qQuestion, qDocId, qTopK, qMatches, qResult>>

\* const results = await this.index.query(queryOptions), and what follows
\* when there are matches
QueryIndex(pools) ==
  /\ qpc = "query"
  /\ qCalls' = [qCalls EXCEPT !.query = @ + 1]
  /\ \/ /\ QueryFail("Query failed")
        /\ UNCHANGED <<qMatches, qResult>>
     \/ \E pool \in pools :
          /\ qMatches' = IndexQuery(pool, qOptions)
          /\ IF Len(IndexQuery(pool, qOptions)) = 0
               THEN qpc' = "stats" /\ UNCHANGED qResult
               ELSE /\ qpc' = "returned"
                    /\ qResult' = QueryResult(IndexQuery(pool, qOptions), qTopK)
          /\ UNCHANGED qError
  /\ UNCHANGED <<qQuestion, qDocId, qTopK, qOptions>>

\* no matches: describeIndexStats() for the log, its error caught; return []
QueryNoMatches ==
  /\ qpc = "stats"
  /\ qCalls' = [qCalls EXCEPT !.stats = @ + 1]
  /\ qpc' = "returned"
  /\ qResult' = <<>>
  /\ UNCHANGED <<qQuestion, qDocId, qTopK, qOptions, qMatches, qError>>

QueryInit ==
  /\ qpc = "idle"
  /\ qQuestion = <<>>
  /\ qDocId = None
  /\ qTopK = 0
  /\ qOptions = NoOptions
  /\ qMatches = <<>>
  /\ qCalls = NoQueryCalls
  /\ qResult = <<>>
  /\ qError = None

Questions == {<<>>, <<" ">>, <<"w", "h", "y", "?">>}

(***************************************************************************)
(* The query route, router.post('/') of routes/upload.js                  *)
(***************************************************************************)
\* const topK = 3, chunkSize = 1000: the defaults of the destructuring
DefaultTopK == 3
DefaultChunkSize == 1000
\* chunk.text.substring(0, 300) + '...'
SourcePreviewLen == 300

\* '\n\n---\n\n'
Separator == <<"\n", "\n", "-", "-", "-", "\n", "\n">>

\* array.join(separator), of strings
RECURSIVE Join(_, _)
Join(strs, sep) ==
  IF Len(strs) = 0 THEN <<>>
  ELSE IF Len(strs) = 1 THEN strs[1]
  ELSE strs[1] \o sep \o Join(Tail(strs), sep)

\* a stored document
MkDocument(userId, name, text, uploadedAt) ==
  [userId |-> userId, originalName |-> name, textContent |-> text,
   vectorIds |-> <<>>, processedAt |-> FALSE, uploadedAt |-> uploadedAt,
   queryCount |-> 0]

\* validateSettings of components/Settings.js: topK in 1..10 and chunkSize in
\* 100..2000
TopKMin == 1
TopKMax == 10
ChunkSizeMin == 100
ChunkSizeMax == 2000

\* settings given by the request: given names the fields that are present
SettingOr(settings, name, default) ==
  IF name \in settings.given THEN settings[name] ELSE default

ReqTopK == SettingOr(req.settings, "topK", DefaultTopK)
ReqChunkSize == SettingOr(req.settings, "chunkSize", DefaultChunkSize)

\* variant: documentId alone, 'all' taken for an id
NamesOneDocument_AllIsId(documentId) == documentId # None

\* documentId && documentId !== 'all'
NamesOneDocument(documentId) == documentId # None /\ documentId # "all"

\* .sort({ uploadedAt: -1 }), of a set of document ids
RECURSIVE SortByUploadDesc(_, _)
SortByUploadDesc(store, ids) ==
  IF ids = {} THEN <<>>
  ELSE LET first == CHOOSE d \in ids :
                      \A e \in ids : store[e].uploadedAt <= store[d].uploadedAt
       IN <<first>> \o SortByUploadDesc(store, ids \ {first})

\* Document.find({ userId, _id? }).sort({ uploadedAt: -1 }): the ids found
FindDocuments_AnyUser(store, userId, documentId) ==
  SortByUploadDesc(store,
    {d \in DOMAIN store :
       /\ NamesOneDocument(documentId) \/ store[d].userId = userId
       /\ NamesOneDocument(documentId) => d = documentId})

FindDocuments(store, userId, documentId) ==
  SortByUploadDesc(store,
    {d \in DOMAIN store :
       /\ store[d].userId = userId
       /\ NamesOneDocument(documentId) => d = documentId})

\* variant: a text of white space counts as text
DocsWithText_NoTrim(store, found) ==
  SelectSeq(found, LAMBDA d : Len(store[d].textContent.chars) > 0)

\* documents.filter(d => d.textContent && d.textContent.trim().length > 0)
DocsWithText(store, found) ==
  SelectSeq(found, LAMBDA d : /\ Len(store[d].textContent.chars) > 0
                              /\ Len(Trim(store[d].textContent.chars)) > 0)

\* variant: the join of the top chunks, without the cut
VectorContext_NoCut(chunkList, topK, chunkSize) ==
  Join(MapSeq(Take(chunkList, topK), LAMBDA c : c.text), Separator)

\* the context of the vector path: the join of the top chunks, cut to
\* chunkSize * topK characters
VectorContext(chunkList, topK, chunkSize) ==
  LET joined == Join(MapSeq(Take(chunkList, topK), LAMBDA c : c.text),
                     Separator)
  IN IF Len(joined) > chunkSize * topK
       THEN Substring0(joined, chunkSize * topK)
       ELSE joined

\* topChunks.map(chunk => ({ text, score, documentName }))
VectorSources(chunkList, topK, documentName) ==
  MapSeq(Take(chunkList, topK),
         LAMBDA c : [text |-> Substring0(c.text, SourcePreviewLen)
                                \o <<".", ".", ".">>,
                     score |-> c.score,
                     documentName |-> documentName])

\* variant: the whole stored text, without the cut
DirectContext_NoCut(store, withText, documentId, topK, chunkSize) ==
  IF NamesOneDocument(documentId)
    THEN store[withText[1]].textContent.chars
    ELSE Join(MapSeq(withText,
                LAMBDA d : <<"[">> \o store[d].originalName \o <<"]", "\n">>
                           \o store[d].textContent.chars),
              Separator)

\* the context of the direct path: the stored text of the document, or the
\* join of the texts of all documents, cut to chunkSize * topK characters
DirectContext(store, withText, documentId, topK, chunkSize) ==
  IF NamesOneDocument(documentId)
    THEN Substring0(store[withText[1]].textContent.chars, chunkSize * topK)
    ELSE Substring0(
           Join(MapSeq(withText,
                  LAMBDA d : <<"[">> \o store[d].originalName \o <<"]", "\n">>
                             \o store[d].textContent.chars),
                Separator),
           chunkSize * topK)

NoRequest ==
  [user |-> None, question |-> <<>>, documentId |-> None,
   settings |-> [given |-> {}, topK |-> 0, chunkSize |-> 0]]

MkResponse(status, success, message, answer, srcs, method) ==
  [status |-> status, success |-> success, message |-> message,
   answer |-> answer, sources |-> srcs, method |-> method]

NoResponse == MkResponse(0, FALSE, None, None, <<>>, None)

Respond(resp) ==
  /\ response' = resp
  /\ rpc' = "done"

\* the handler up to the vector search: the question check, Document.find
\* and the two early answers
RouteEnter(request) ==
  /\ rpc = "idle"
  /\ req' = request
  /\ IF Len(request.question) = 0 \/ Len(Trim(request.question)) = 0
       THEN /\ Respond(MkResponse(400, FALSE, "Question is required", None,
                                  <<>>, None))
            /\ UNCHANGED rDocuments
       ELSE \/ /\ Respond(MkResponse(500, FALSE, "Database error",
                    "Sorry, an error occurred while processing your question.",
                    <<>>, None))
               /\ UNCHANGED rDocuments
            \/ LET found == FindDocuments(docs, request.user, request.documentId)
               IN /\ rDocuments' = found
                  /\ IF Len(found) = 0
                       THEN Respond(MkResponse(200, FALSE,
                              "No documents found. Please upload documents first.",
                              "No documents found in your library.", <<>>, None))
                     ELSE IF Len(DocsWithText(docs, found)) = 0
                       THEN Respond(MkResponse(200, FALSE,
                              "Documents are still being processed. Please wait a moment.",
                              "Your documents are being processed. Please try again in a few seconds.",
                              <<>>, None))
                     ELSE rpc' = "rag" /\ UNCHANGED response
  /\ context' = <<>>
  /\ sources' = <<>>
  /\ usedRAG' = FALSE
  /\ UNCHANGED <<docs, genCalls>>

\* if (!usedRAG || !context): the direct text replaces the context
AfterFallback(used, ctx) ==
  IF ~used \/ ctx = <<>>
    THEN DirectContext(docs, DocsWithText(docs, rDocuments), req.documentId,
                       ReqTopK, ReqChunkSize)
    ELSE ctx

\* the try block: queryDocuments is called when one document is named;
\* otherwise the direct text is used at once
RouteRag ==
  /\ rpc = "rag"
  /\ IF NamesOneDocument(req.documentId)
       THEN /\ QueryDocumentsEnter(req.question, req.documentId, ReqTopK)
            /\ rpc' = "awaitRag"
            /\ UNCHANGED context
       ELSE /\ context' = AfterFallback(usedRAG, context)
            /\ rpc' = "generate"
            /\ UNCHANGED queryVars
  /\ UNCHANGED <<docs, req, rDocuments, sources, usedRAG, genCalls, response>>

\* queryDocuments returned or threw: the chunks become the context, or the
\* error is caught; then the fallback
RouteRagReturn ==
  /\ rpc = "awaitRag"
  /\ qpc \in {"returned", "failed"}
  /\ IF qpc = "returned" /\ Len(qResult) > 0
       THEN /\ context' = AfterFallback(TRUE,
                            VectorContext(qResult, ReqTopK, ReqChunkSize))
            /\ sources' = VectorSources(qResult, ReqTopK,
                                        docs[rDocuments[1]].originalName)
            /\ usedRAG' = TRUE
       ELSE /\ context' = AfterFallback(FALSE, context)
            /\ UNCHANGED <<sources, usedRAG>>
  /\ rpc' = "generate"
  /\ UNCHANGED <<docs, req, rDocuments, genCalls, response, queryVars>>

\* await groq.chat.completions.create(...): an answer, or an error that the
\* handler's catch turns into a 500
RouteGenerate ==
  /\ rpc = "generate"
  /\ genCalls' = Append(genCalls, context)
  /\ \/ /\ rpc' = "finish"
        /\ UNCHANGED response
     \/ Respond(MkResponse(500, FALSE, "Generation failed",
                  "Sorry, an error occurred while processing your question.",
                  <<>>, None))
  /\ UNCHANGED <<docs, req, rDocuments, context, sources, usedRAG, queryVars>>

\* the query count, the conversation (its error caught) and res.json
RouteFinish ==
  /\ rpc = "finish"
  /\ \/ /\ docs' = IF NamesOneDocument(req.documentId)
                     /\ req.documentId \in DOMAIN docs
                     THEN [docs EXCEPT ![req.documentId].queryCount = @ + 1]
                     ELSE docs
        /\ Respond(MkResponse(200, TRUE, None, "generated answer", sources,
                              IF usedRAG THEN "vector" ELSE "direct"))
     \/ /\ NamesOneDocument(req.documentId)
        /\ Respond(MkResponse(500, FALSE, "Database error",
                     "Sorry, an error occurred while processing your question.",
                     <<>>, None))
        /\ UNCHANGED docs
  /\ UNCHANGED <<req, rDocuments, context, sources, usedRAG, genCalls,
                 queryVars>>

RouteInit ==
  /\ rpc = "idle"
  /\ req = NoRequest
  /\ rDocuments = <<>>
  /\ context = <<>>
  /\ sources = <<>>
  /\ usedRAG = FALSE
  /\ genCalls = <<>>
  /\ response = NoResponse

(***************************************************************************)
(* exports.queryDocuments of controllers/aiController.js                   *)
(***************************************************************************)
\* async queryDocuments(question, documentId = null, topK = 3)
QueryDefaultTopK == 3
\* const threshold = 0.1, with scores counted in hundredths
ScoreThreshold == 10
\* relevantChunks.slice(0, 3), highConfidenceChunks.slice(0, 5),
\* topChunks.slice(0, 3) and chunk.text.substring(0, 200)
LowConfidenceChunks == 3
CtlTopChunks == 5
ExcerptChunks == 3
ExcerptLen == 200

MkAnswer(kind, excerpts) == [kind |-> kind, excerpts |-> excerpts]

MkCtlResponse(status, error, message, answer, srcs, chunksFound) ==
  [status |-> status, error |-> error, message |-> message,
   answer |-> answer, sources |-> srcs, chunksFound |-> chunksFound]

NoCtlResponse == MkCtlResponse(0, None, None, MkAnswer(None, <<>>), <<>>, 0)

NoCtlRequest == [question |-> <<>>, documentId |-> None]

CtlRespond(resp) ==
  /\ cResponse' = resp
  /\ cpc' = "done"

\* res.status(500).json({ error: 'Query failed', message: error.message })
CtlError(message) ==
  MkCtlResponse(500, "Query failed", message, MkAnswer(None, <<>>), <<>>, 0)

\* res.json({ question, answer, sources: [], chunksFound: 0 })
CtlMessage(text) ==
  MkCtlResponse(200, None, None, MkAnswer(text, <<>>), <<>>, 0)

\* the chunks at or above the threshold, or the first three; then the first
\* five of those
TopChunks(relevantChunks) ==
  LET high == SelectSeq(relevantChunks, LAMBDA c : c.score >= ScoreThreshold)
  IN Take(IF Len(high) = 0 THEN Take(relevantChunks, LowConfidenceChunks)
          ELSE high,
          CtlTopChunks)

\* doc?.originalName || fallback, doc the stored document of the chunk
CtlDocName(store, chunk, fallback) ==
  IF chunk.metadata.documentId \in DOMAIN store
    THEN store[chunk.metadata.documentId].originalName
    ELSE fallback

\* contextParts.join('\n\n---\n\n')
CtlContext(store, topChunks) ==
  Join(MapSeq(topChunks,
         LAMBDA c : <<"[">>
                    \o CtlDocName(store, c,
                         <<"D", "o", "c", "u", "m", "e", "n", "t">>)
                    \o <<"]", "\n">> \o c.text),
       Separator)

CtlSources(store, topChunks) ==
  MapSeq(topChunks,
         LAMBDA c : [text |-> Substring0(c.text, SourcePreviewLen)
                                \o <<".", ".", ".">>,
                     score |-> c.score,
                     documentName |->
                       CtlDocName(store, c,
                         <<"U", "n", "k", "n", "o", "w", "n">>)])

\* catch (aiError): 'Based on your documents:' and the excerpts of the first
\* three top chunks
OnAiError(topChunks) ==
  MkAnswer("Based on your documents:",
           MapSeq(Take(topChunks, ExcerptChunks),
                  LAMBDA c : Substring0(c.text, ExcerptLen)
                             \o <<".", ".", ".">>))

\* the handler up to the vector search: the question check, the two counts
\* and their early answers
ControllerEnter(request) ==
  /\ cpc = "idle"
  /\ cReq' = request
  /\ IF QuestionIsEmpty(request.question)
       THEN /\ CtlRespond(MkCtlResponse(400, "Question is required", None,
                                        MkAnswer(None, <<>>), <<>>, 0))
            /\ UNCHANGED queryVars
       ELSE \/ /\ CtlRespond(CtlError("Database error"))
               /\ UNCHANGED queryVars
            \/ IF DOMAIN docs = {}
                 THEN /\ CtlRespond(CtlMessage(
                           "No documents found. Please upload documents first."))
                      /\ UNCHANGED queryVars
               ELSE IF \A d \in DOMAIN docs : docs[d].vectorIds = <<>>
                 THEN /\ CtlRespond(CtlMessage(
                           "Documents are being processed. Try again in a moment."))
                      /\ UNCHANGED queryVars
               ELSE /\ QueryDocumentsEnter(request.question, request.documentId,
                                           QueryDefaultTopK)
                    /\ cpc' = "awaitQuery"
                    /\ UNCHANGED cResponse
  /\ UNCHANGED <<docs, cTopChunks, cGenCalls>>

\* ragService.queryDocuments returned or threw: no chunks is answered at
\* once, an error goes to the handler's catch
ControllerQueryReturn ==
  /\ cpc = "awaitQuery"
  /\ qpc \in {"returned", "failed"}
  /\ IF qpc = "failed"
       THEN CtlRespond(CtlError(qError)) /\ UNCHANGED cTopChunks
     ELSE IF Len(qResult) = 0
       THEN /\ CtlRespond(CtlMessage("No relevant information found."))
            /\ UNCHANGED cTopChunks
     ELSE \/ CtlRespond(CtlError("Database error")) /\ UNCHANGED cTopChunks
          \/ /\ cTopChunks' = TopChunks(qResult)
             /\ cpc' = "generate"
             /\ UNCHANGED cResponse
  /\ UNCHANGED <<docs, cReq, cGenCalls, queryVars>>

\* the generation call, its own catch, and res.json
ControllerGenerate ==
  /\ cpc = "generate"
  /\ cGenCalls' = Append(cGenCalls, CtlContext(docs, cTopChunks))
  /\ \E answer \in {MkAnswer("generated answer", <<>>), OnAiError(cTopChunks)} :
       CtlRespond(MkCtlResponse(200, None, None, answer,
                                CtlSources(docs, cTopChunks), Len(qResult)))
  /\ UNCHANGED <<docs, cReq, cTopChunks, queryVars>>

CtlInit ==
  /\ cpc = "idle"
  /\ cReq = NoCtlRequest
  /\ cTopChunks = <<>>
  /\ cGenCalls = <<>>
  /\ cResponse = NoCtlResponse

(***************************************************************************)
(* The upload handlers: router.post('/upload') of routes/documents.js      *)
(* ("documents") and of routes/upload.js ("fixed"), and                    *)
(* uploadDocumentMultipart ("multipart") and finalizeDocument ("finalize") *)
(* of controllers/documentController.js.                                   *)
(***************************************************************************)
\* textContent.trim().length > 50
MinIndexChars == 50

UploadRoutes == {"documents", "fixed", "multipart", "finalize"}

\* whether the handler calls indexDocument for the extracted text
ShouldIndex(route, text) ==
  CASE route = "documents" ->
         Len(text.chars) > 0 /\ Len(Trim(text.chars)) > 0
    [] route = "fixed" ->
         Len(text.chars) > 0 /\ Len(Trim(text.chars)) > MinIndexChars
    [] OTHER -> TRUE

MkUploadResponse(status, message, isIndexed, vectorCount, indexingError) ==
  [status |-> status, message |-> message, isIndexed |-> isIndexed,
   vectorCount |-> vectorCount, indexingError |-> indexingError]

NoUploadResponse == MkUploadResponse(0, None, FALSE, 0, None)

\* the 201 response of a handler, from the in-memory document and the flags
UploadResponse(route, document, indexingSuccess, indexingError) ==
  CASE route = "documents" ->
         MkUploadResponse(201, "Document uploaded successfully",
                          Len(document.vectorIds) > 0, 0, None)
    [] route = "fixed" ->
         MkUploadResponse(201,
           IF indexingSuccess
             THEN "Document uploaded and indexed successfully"
             ELSE "Document uploaded (indexing pending)",
           indexingSuccess, Len(document.vectorIds), indexingError)
    [] OTHER ->
         MkUploadResponse(201, "Document uploaded successfully", FALSE, 0, None)

NoUploadDocument ==
  [textContent |-> EmptyText, vectorIds |-> <<>>, processedAt |-> FALSE]

\* variant: the catch block stamps the document as processed
OnIndexError_Stamps(document) == [document EXCEPT !.processedAt = TRUE]

\* catch (indexError): the error is logged, the document is left as it is
OnIndexError(document) == document

\* variant: the save stores the ids and the date, not the text
SaveDocument_NoText(store, documentId, document) ==
  [store EXCEPT ![documentId].vectorIds = document.vectorIds,
                ![documentId].processedAt = document.processedAt]

\* document.save(): the fields of the in-memory document are stored
SaveDocument(store, documentId, document) ==
  [store EXCEPT ![documentId].textContent = document.textContent,
                ![documentId].vectorIds = document.vectorIds,
                ![documentId].processedAt = document.processedAt]

\* the handler up to the call of indexDocument: text extraction, storage,
\* the new Document record, and the decision to index
UploadEnter(route, userId, documentId, text) ==
  /\ upc = "idle"
  /\ documentId \notin DOMAIN docs
  /\ uRoute' = route
  /\ uDocId' = documentId
  /\ uIndexingSuccess' = FALSE
  /\ \/ /\ uResponse' = MkUploadResponse(500, "Upload failed", FALSE, 0, None)
        /\ upc' = "done"
        /\ UNCHANGED <<docs, uDocument, uIndexingError, indexVars>>
     \/ /\ docs' = [d \in DOMAIN docs \cup {documentId} |->
                      IF d = documentId
                        THEN MkDocument(userId, <<"F">>,
                               IF route = "finalize" THEN EmptyText ELSE text,
                               Cardinality(DOMAIN docs) + 1)
                        ELSE docs[d]]
        /\ uDocument' = [NoUploadDocument EXCEPT !.textContent = text]
        /\ \/ IF ShouldIndex(route, text)
               THEN /\ IndexDocumentEnter(documentId, text)
                    /\ upc' = "indexing"
                    /\ uIndexingError' = None
                    /\ uResponse' =
                         IF route = "finalize"
                           THEN UploadResponse(route, NoUploadDocument, FALSE, None)
                           ELSE NoUploadResponse
               ELSE /\ upc' = "done"
                    /\ uIndexingError' =
                         IF route = "fixed" THEN "Text too short for indexing"
                         ELSE None
                    /\ uResponse' =
                         UploadResponse(route, NoUploadDocument, FALSE,
                           IF route = "fixed" THEN "Text too short for indexing"
                           ELSE None)
                    /\ UNCHANGED indexVars
           \/ \* finalize: the background task fails before indexDocument
              \* (the download or the extraction), which is caught and logged
              /\ route = "finalize"
              /\ upc' = "done"
              /\ uIndexingError' = None
              /\ uResponse' = UploadResponse(route, NoUploadDocument, FALSE, None)
              /\ UNCHANGED indexVars

\* indexDocument returned or threw: the ids and processedAt are set and the
\* document is saved, or the error is caught
UploadIndexReturn ==
  /\ upc = "indexing"
  /\ ipc \in {"returned", "failed"}
  /\ IF ipc = "returned" /\ ~(uRoute = "fixed" /\ Len(iResult) = 0)
       THEN LET marked == [uDocument EXCEPT !.vectorIds = iResult,
                                            !.processedAt = TRUE]
            IN /\ uDocument' = marked
               /\ \/ /\ docs' = SaveDocument(docs, uDocId, marked)
                     /\ IF uRoute = "fixed"
                          THEN /\ uIndexingSuccess' = TRUE
                               /\ QueryDocumentsEnter(<<"t", "e", "s", "t">>,
                                                      uDocId, 1)
                               /\ upc' = "verifying"
                               /\ UNCHANGED <<uIndexingError, uResponse>>
                          ELSE /\ upc' = "done"
                               /\ uResponse' =
                                    IF uRoute = "finalize" THEN uResponse
                                    ELSE UploadResponse(uRoute, marked, FALSE, None)
                               /\ UNCHANGED <<uIndexingSuccess, uIndexingError,
                                              queryVars>>
                  \/ /\ upc' = "done"
                     /\ uIndexingError' =
                          IF uRoute = "fixed" THEN "Save failed" ELSE None
                     /\ uResponse' =
                          IF uRoute = "finalize" THEN uResponse
                          ELSE UploadResponse(uRoute, marked, FALSE,
                                 IF uRoute = "fixed" THEN "Save failed" ELSE None)
                     /\ UNCHANGED <<docs, uIndexingSuccess, queryVars>>
       ELSE /\ uDocument' = OnIndexError(uDocument)
            /\ upc' = "done"
            /\ uIndexingError' =
                 IF uRoute # "fixed" THEN None
                 ELSE IF ipc = "failed" THEN iError ELSE "No vectors created"
            /\ uResponse' =
                 IF uRoute = "finalize" THEN uResponse
                 ELSE UploadResponse(uRoute, OnIndexError(uDocument), FALSE,
                        IF uRoute # "fixed" THEN None
                        ELSE IF ipc = "failed" THEN iError
                        ELSE "No vectors created")
            /\ UNCHANGED <<docs, uIndexingSuccess, queryVars>>
  /\ UNCHANGED <<uRoute, uDocId>>

\* routes/upload.js: the verification query returned or threw; its error is
\* caught by the same catch (indexError)
UploadVerifyReturn ==
  /\ upc = "verifying"
  /\ qpc \in {"returned", "failed"}
  /\ uIndexingError' = IF qpc = "failed" THEN qError ELSE uIndexingError
  /\ uDocument' = IF qpc = "failed" THEN OnIndexError(uDocument) ELSE uDocument
  /\ uResponse' = UploadResponse(uRoute,
                    IF qpc = "failed" THEN OnIndexError(uDocument) ELSE uDocument,
                    uIndexingSuccess,
                    IF qpc = "failed" THEN qError ELSE uIndexingError)
  /\ upc' = "done"
  /\ UNCHANGED <<docs, uRoute, uDocId, uIndexingSuccess>>

UploadInit ==
  /\ upc = "idle"
  /\ uRoute = None
  /\ uDocId = None
  /\ uDocument = NoUploadDocument
  /\ uIndexingSuccess = FALSE
  /\ uIndexingError = None
  /\ uResponse = NoUploadResponse

(***************************************************************************)
(* Specification Spec: one run of indexDocument, called directly.          *)
(***************************************************************************)
\* the numbers of chunks of the texts: a few, and those around a whole
\* number of batches
ChunkCounts ==
  (0..SmallChunks) \cup
  {k * BATCH_SIZE + r : k \in 1..MaxBatches, r \in {-1, 0, 1}}

\* the texts indexDocument is called with
Texts ==
  {EmptyText, WhiteText} \cup
  {MkText(<<"a", " ", "b">>, n, blanks, 1) :
     n \in ChunkCounts, blanks \in SUBSET (0..(MaxBlankPos - 1))}

\* the runs of indexDocument that may be in progress together
Runs == {1, 2}

NoFirstRun ==
  [done |-> FALSE, documentId |-> None, text |-> EmptyText,
   index |-> EmptyIndex, dim |-> 0]

NoRun ==
  [pc |-> "idle", documentId |-> None, text |-> EmptyText, chunks |-> <<>>,
   ci |-> 0, vectors |-> <<>>, batchStart |-> 0, result |-> <<>>]

\* findSimilar before it is called
NoSim ==
  [pc |-> "idle", query |-> <<>>, documents |-> <<>>, topK |-> 0,
   embedCalls |-> 0, queryEmbedding |-> <<>>, results |-> <<>>,
   result |-> <<>>, error |-> None]

\* the health handler before a request
NoHealth ==
  [pc |-> "idle", handler |-> None, mongodb |-> "unknown",
   generator |-> "unknown", pinecone |-> "unknown", called |-> FALSE,
   embedCalls |-> 0, embedOk |-> FALSE, statsCalls |-> 0, statsOk |-> FALSE,
   healthy |-> FALSE, sent |-> FALSE]

AuxInit ==
  /\ firstRun = NoFirstRun
  /\ runs = [r \in Runs |-> NoRun]
  /\ deletions = <<>>
  /\ sim = NoSim
  /\ health = NoHealth

IndexInit ==
  /\ ipc = "idle"
  /\ iDoc = None
  /\ iText = EmptyText
  /\ chunks = <<>>
  /\ ci = 0
  /\ vectors = <<>>
  /\ statsDim = NoStats
  /\ batchStart = 0
  /\ calls = NoCalls
  /\ upsertLog = <<>>
  /\ iResult = <<>>
  /\ iError = None
  /\ indexAtEntry = index

vars == <<indexVars, queryVars, routeVars, uploadVars, ctlVars, auxVars, docs>>

NoDocuments == [d \in {} |-> None]

Init ==
  /\ index \in {EmptyIndex, PriorIndex}
  /\ IndexInit
  /\ QueryInit
  /\ RouteInit
  /\ UploadInit
  /\ CtlInit
  /\ AuxInit
  /\ docs = NoDocuments

CallIndexDocument ==
  /\ ipc = "idle"
  /\ \E documentId \in DocIds, text \in Texts :
       IndexDocumentEnter(documentId, text)
  /\ UNCHANGED <<queryVars, routeVars, uploadVars, ctlVars, auxVars, docs>>

Next ==
  \/ CallIndexDocument
  \/ IndexSteps /\ UNCHANGED <<queryVars, routeVars, uploadVars, ctlVars, auxVars, docs>>

Spec == Init /\ [][Next]_vars

(***************************************************************************)
(* Specification SpecRetrieve: calls of queryDocuments, one after another. *)
(***************************************************************************)
\* the index ranks up to MaxPool records for a question
MaxPool == 12
\* the records without metadata or without text are among the first MaxBad
MaxBad == 3
\* topK is at most MaxTopK
MaxTopK == 12

CallQueryDocuments ==
  /\ \E question \in Questions, documentId \in DocIds \cup {None},
        topK \in 0..MaxTopK :
       QueryDocumentsEnter(question, documentId, topK)
  /\ UNCHANGED <<indexVars, routeVars, uploadVars, ctlVars, auxVars, docs>>

QuerySteps(pools) ==
  \/ EmbedQuestion
  \/ QueryIndex(pools)
  \/ QueryNoMatches

InitRetrieve ==
  /\ index = EmptyIndex
  /\ IndexInit
  /\ QueryInit
  /\ RouteInit
  /\ UploadInit
  /\ CtlInit
  /\ AuxInit
  /\ docs = NoDocuments

NextRetrieve ==
  \/ CallQueryDocuments
  \/ QuerySteps(Pools(MaxPool, MaxBad)) /\ UNCHANGED <<indexVars, routeVars, uploadVars, ctlVars, auxVars, docs>>

SpecRetrieve == InitRetrieve /\ [][NextRetrieve]_vars

\* The same calls, with the fairness the code gives: a caller that is ready
\* does call.  The steps of QuerySteps are taken when the embedding provider
\* or the index answers an await; queryDocuments sets no timer and races no
\* await against one, so nothing in the program makes these steps happen.
SpecRetrieveLive == SpecRetrieve /\ WF_vars(CallQueryDocuments)

(***************************************************************************)
(* Specification SpecQuery: one request to the query route.                *)
(***************************************************************************)
\* settings.topK and settings.chunkSize are at most these
MaxRouteTopK == 3
MaxChunkSize == 3
\* the index ranks up to MaxRoutePool records for the question of a request
MaxRoutePool == 3
MaxRouteBad == 1

Users == {"u1", "u2"}

StoredTexts ==
  {EmptyText, WhiteText,
   MkText(<<"t", "h", "e", " ", "t", "e", "x", "t">>, 2, {}, 1)}

\* the Document collection: d1 of user u1, uploaded first, and possibly d2
\* d1 may have been indexed (its vectorIds set)
DocStores ==
  {NoDocuments}
  \cup
  {[d \in {"d1"} |-> [MkDocument("u1", <<"A">>, t, 1) EXCEPT !.vectorIds = v]] :
     t \in StoredTexts, v \in {<<>>, <<VectorId("d1", 0)>>}}
  \cup
  {[d \in {"d1", "d2"} |->
      IF d = "d1"
        THEN [MkDocument("u1", <<"A">>, t, 1) EXCEPT !.vectorIds = v]
        ELSE MkDocument(u, <<"B">>, MkText(<<" ", "b", "c">>, 1, {}, 2), 2)] :
     t \in StoredTexts, u \in Users, v \in {<<>>, <<VectorId("d1", 0)>>}}

CtlRequests ==
  {[question |-> q, documentId |-> d] :
     q \in Questions, d \in DocIds \cup {None}}

Requests ==
  {[user |-> "u1", question |-> q, documentId |-> d,
    settings |-> [given |-> g, topK |-> k, chunkSize |-> c]] :
     q \in Questions, d \in DocIds \cup {None, "all"},
     g \in SUBSET {"topK", "chunkSize"},
     k \in 0..MaxRouteTopK, c \in 0..MaxChunkSize}

InitQuery ==
  /\ index = EmptyIndex
  /\ IndexInit
  /\ QueryInit
  /\ RouteInit
  /\ UploadInit
  /\ CtlInit
  /\ AuxInit
  /\ docs \in DocStores

CallQueryRoute ==
  /\ cpc = "idle"
  /\ \E request \in Requests : RouteEnter(request)
  /\ UNCHANGED <<indexVars, queryVars, uploadVars, ctlVars, auxVars>>

CallController ==
  /\ rpc = "idle"
  /\ \E request \in CtlRequests : ControllerEnter(request)
  /\ UNCHANGED <<indexVars, routeVars, uploadVars, auxVars>>

ControllerSteps ==
  \/ ControllerQueryReturn
  \/ ControllerGenerate

RouteSteps ==
  \/ RouteRag
  \/ RouteRagReturn
  \/ RouteGenerate
  \/ RouteFinish

NextQuery ==
  \/ CallQueryRoute
  \/ RouteSteps /\ UNCHANGED <<indexVars, uploadVars, ctlVars, auxVars>>
  \/ CallController
  \/ ControllerSteps /\ UNCHANGED <<indexVars, routeVars, uploadVars, auxVars>>
  \/ QuerySteps(Pools(MaxRoutePool, MaxRouteBad))
       /\ UNCHANGED <<indexVars, routeVars, uploadVars, ctlVars, auxVars, docs>>

SpecQuery == InitQuery /\ [][NextQuery]_vars

(***************************************************************************)
(* Specification SpecUpload: one upload, through any of the handlers.      *)
(***************************************************************************)
\* the splitter cuts an uploaded text into at most MaxUploadChunks chunks
MaxUploadChunks == 2

UploadTexts ==
  {EmptyText, WhiteText} \cup
  {MkText(c, n, blanks, 1) :
     c \in {<<"h", "i">>, Chars(MinIndexChars), Chars(MinIndexChars + 1)},
     n \in 0..MaxUploadChunks, blanks \in SUBSET (0..(MaxBlankPos - 1))}

InitUpload ==
  /\ index = EmptyIndex
  /\ IndexInit
  /\ QueryInit
  /\ RouteInit
  /\ UploadInit
  /\ CtlInit
  /\ AuxInit
  /\ docs = NoDocuments

CallUpload ==
  /\ \E route \in UploadRoutes, documentId \in DocIds, text \in UploadTexts :
       UploadEnter(route, "u1", documentId, text)
  /\ UNCHANGED <<queryVars, routeVars, ctlVars, auxVars>>

UploadSteps ==
  \/ UploadIndexReturn /\ UNCHANGED <<indexVars, routeVars, ctlVars, auxVars>>
  \/ UploadVerifyReturn /\ UNCHANGED <<indexVars, queryVars, routeVars, ctlVars, auxVars>>

NextUpload ==
  \/ CallUpload
  \/ UploadSteps
  \/ IndexSteps /\ UNCHANGED <<queryVars, routeVars, uploadVars, ctlVars, auxVars, docs>>
  \/ QuerySteps(Pools(MaxRoutePool, MaxRouteBad))
       /\ UNCHANGED <<indexVars, routeVars, uploadVars, ctlVars, auxVars, docs>>

SpecUpload == InitUpload /\ [][NextUpload]_vars

(***************************************************************************)
(* Specification SpecReindex: indexDocument run for a document, and run    *)
(* again for it once the first run has returned.                           *)
(***************************************************************************)
MaxReindexChunks == 2

ReindexTexts ==
  {MkText(<<"a">>, n, blanks, rev) :
     n \in 1..MaxReindexChunks, blanks \in {{}, {0}}, rev \in {1, 2}}

InitReindex ==
  /\ index = EmptyIndex
  /\ IndexInit
  /\ QueryInit
  /\ RouteInit
  /\ UploadInit
  /\ CtlInit
  /\ AuxInit
  /\ docs = NoDocuments

CallFirstRun ==
  /\ ipc = "idle"
  /\ \E text \in ReindexTexts : IndexDocumentEnter("d1", text)
  /\ UNCHANGED <<queryVars, routeVars, uploadVars, ctlVars, auxVars, docs>>

\* the second call: what the first run left is recorded
CallSecondRun ==
  /\ ipc = "returned"
  /\ ~firstRun.done
  /\ firstRun' = [done |-> TRUE, documentId |-> iDoc, text |-> iText,
                  index |-> index, dim |-> vectors[1].values.length]
  /\ \E text \in ReindexTexts : IndexDocumentEnter(iDoc, text)
  /\ UNCHANGED <<queryVars, routeVars, uploadVars, ctlVars, runs, deletions,
                 sim, health, docs>>

NextReindex ==
  \/ CallFirstRun
  \/ CallSecondRun
  \/ IndexSteps
       /\ UNCHANGED <<queryVars, routeVars, uploadVars, ctlVars, auxVars, docs>>

SpecReindex == InitReindex /\ [][NextReindex]_vars

(***************************************************************************)
(* Properties of indexDocument, checked under Spec.                        *)
(***************************************************************************)
RECURSIVE FlattenIds(_)
FlattenIds(log) ==
  IF log = <<>> THEN <<>> ELSE log[1].ids \o FlattenIds(Tail(log))

IsPrefix(s, t) == Len(s) <= Len(t) /\ SubSeq(t, 1, Len(s)) = s

\* the positions (from 0) of the chunks that are not blank, in order
NonBlankPositions(cs) ==
  SelectSeq([k \in 1..Len(cs) |-> k - 1],
            LAMBDA i : ~(cs[i + 1] = "" \/ cs[i + 1] = " "))

\* the ids a run must return, as a function of documentId and the splitter output
ExpectedIds(documentId, cs) ==
  LET pos == NonBlankPositions(cs)
  IN [k \in 1..Len(pos) |-> <<documentId, "_chunk_", pos[k]>>]

\* C4: the record built for the chunk at position i of the splitter output
\* has the id <documentId>_chunk_<i>, and the list of ids a run returns is a
\* function of documentId and the splitter output alone, so two runs on the
\* same input return the same ordered list.
C4_IdDeterminism ==
  /\ \A k \in 1..Len(vectors) :
       LET i == vectors[k].metadata.chunkIndex IN
         /\ i \in 0..(Len(chunks) - 1)
         /\ vectors[k].metadata.text = chunks[i + 1]
         /\ vectors[k].id = <<iDoc, "_chunk_", i>>
  /\ ipc = "returned" => iResult = ExpectedIds(iDoc, chunks)

C4_Witness ==
  /\ ipc = "returned"
  /\ Len(iResult) >= 2
  /\ Len(iResult) < Len(chunks)

\* C5: once an embedding call has thrown or returned a value that is not a
\* non-empty array, the run has failed, it has issued no upsert and the index
\* is as it was when the run was entered.
C5_EmbeddingFailureAborts ==
  calls.embedFailed > 0 =>
    /\ ipc = "failed"
    /\ calls.upsert = 0
    /\ upsertLog = <<>>
    /\ index = indexAtEntry

C5_Witness ==
  /\ calls.embedFailed > 0
  /\ ipc = "failed"
  /\ Len(vectors) > BATCH_SIZE

\* C6: when the dimension of the embedded vectors differs from the dimension
\* the index reported, the run issues no upsert, leaves the index as it was
\* and does not return.
C6_DimensionMismatchAborts ==
  (/\ statsDim.called
   /\ ~statsDim.threw
   /\ Len(vectors) > 0
   /\ vectors[1].values.length #
        (IF statsDim.dimension = 0 THEN 384 ELSE statsDim.dimension)) =>
    /\ calls.upsert = 0
    /\ index = indexAtEntry
    /\ ipc # "returned"

\* C7: the upserts are sent in consecutive batches of at most 50 records, in
\* the order of the vectors; a batch is sent only after the batch before it
\* succeeded; after a failed upsert the run has failed and nothing more is
\* sent; the records of the batches that succeeded are in the index.
C7_BatchesInOrder ==
  /\ \A k \in 1..Len(upsertLog) :
       /\ Len(upsertLog[k].ids) >= 1
       /\ Len(upsertLog[k].ids) <= 50
  /\ \A k \in 1..(Len(upsertLog) - 1) :
       /\ upsertLog[k].ok
       /\ Len(upsertLog[k].ids) = 50
  /\ IsPrefix(FlattenIds(upsertLog), IdsOf(vectors))
  /\ Len(upsertLog) = calls.upsert
  /\ (Len(upsertLog) > 0 /\ ~upsertLog[Len(upsertLog)].ok) =>
       /\ ipc = "failed"
       /\ iResult = <<>>
  /\ \A j \in 1..Len(FlattenIds(SelectSeq(upsertLog, LAMBDA b : b.ok))) :
       /\ vectors[j].id \in DOMAIN index
       /\ index[vectors[j].id] =
            [values |-> vectors[j].values, metadata |-> vectors[j].metadata]

C7_Witness ==
  /\ ipc = "failed"
  /\ Len(upsertLog) = 3
  /\ ~upsertLog[3].ok
  /\ Len(vectors) > 2 * BATCH_SIZE

\* C8: when the run returns, the list returned is not empty and is, in order,
\* the ids of the records the run upserted, all of which were accepted and
\* are in the index; a run goes past the embedding loop only with at least
\* one vector.
C8_ReturnsWrittenIds ==
  /\ ipc = "returned" =>
       /\ iResult # <<>>
       /\ iResult = FlattenIds(upsertLog)
       /\ \A k \in 1..Len(upsertLog) : upsertLog[k].ok
       /\ \A k \in 1..Len(iResult) : iResult[k] \in DOMAIN index
  /\ ipc \in {"dimcheck", "upsert", "returned"} => Len(vectors) > 0
  /\ ipc \in {"idle", "split", "embed", "dimcheck", "upsert", "failed"} =>
       iResult = <<>>

C8_Witness ==
  /\ ipc = "returned"
  /\ Len(iResult) > BATCH_SIZE
  /\ Len(upsertLog) >= 2

\* a chunk that is the empty string or only whitespace
BlankChunk(chunk) == chunk = EmptyStr \/ chunk = WhiteStr

\* C25: no chunk that is empty or only whitespace is embedded or upserted:
\* the provider was called once for each chunk passed that is not blank and
\* for no other, the k-th record built is for the k-th non-blank chunk and
\* carries that chunk's position in the splitter output, and every id sent
\* to the index is of a non-blank position.
C25_BlankChunksSkipped ==
  LET pos == NonBlankPositions(SubSeq(chunks, 1, ci)) IN
  /\ Len(vectors) = Len(pos)
  /\ \A k \in 1..Len(vectors) :
       /\ ~BlankChunk(vectors[k].metadata.text)
       /\ vectors[k].metadata.chunkIndex = pos[k]
       /\ vectors[k].id = VectorId(iDoc, pos[k])
  /\ calls.embed = Len(pos) + calls.embedFailed
  /\ \A k \in 1..Len(upsertLog) : \A j \in 1..Len(upsertLog[k].ids) :
       ~BlankChunk(chunks[upsertLog[k].ids[j][3] + 1])

\* a run that returned though a blank chunk stood before a chunk with text,
\* whose record is in the index under its original position
C25_Witness ==
  /\ ipc = "returned"
  /\ \E p, i \in 0..(Len(chunks) - 1) :
       /\ p < i
       /\ chunks[p + 1] = WhiteStr
       /\ ~BlankChunk(chunks[i + 1])
       /\ VectorId(iDoc, i) \in DOMAIN index
       /\ VectorId(iDoc, p) \notin DOMAIN index
  /\ calls.embed < Len(chunks)

\* C10: a run entered with an empty or whitespace-only text has failed
\* without a call to the splitter, the embedding provider or the vector
\* index, and the index is as it was.
C10_EmptyTextRejected ==
  (ipc # "idle" /\ \A k \in 1..Len(iText.chars) : iText.chars[k] \in {" ", "\n"}) =>
    /\ ipc = "failed"
    /\ iError = "Empty document text"
    /\ calls = NoCalls
    /\ index = indexAtEntry
    /\ upsertLog = <<>>

C10_Witness ==
  /\ ipc = "failed"
  /\ Len(iText.chars) > 0
  /\ \A k \in 1..Len(iText.chars) : iText.chars[k] \in {" ", "\n"}
  /\ index = PriorIndex

(***************************************************************************)
(* Properties of queryDocuments (SpecRetrieve) and of the query route      *)
(* (SpecQuery).                                                            *)
(***************************************************************************)
\* the first n characters of a string
Prefix(str, n) == [k \in 1..(IF n < Len(str) THEN n ELSE Len(str)) |-> str[k]]

\* the request names one document, and retrieval was attempted and is over
RetrievalOver ==
  /\ rpc \in {"generate", "finish", "done"}
  /\ req.documentId \notin {None, "all"}
  /\ qpc \in {"returned", "failed"}

\* C1: for a request that names one document with stored text, once
\* queryDocuments has returned an empty list or thrown, the context is the
\* first chunkSize * topK characters of the stored text and the generator is
\* called with it; the request is answered with status 200 and method
\* 'direct' (unless the generator or the database fails afterwards); a
\* response has method 'vector' only when retrieval returned a chunk.
C1_DirectFallback ==
  /\ (RetrievalOver /\ (qpc = "failed" \/ qResult = <<>>)) =>
       /\ ~usedRAG
       /\ sources = <<>>
       /\ context = Prefix(docs[req.documentId].textContent.chars,
                           ReqChunkSize * ReqTopK)
       /\ rpc # "generate" => genCalls = <<context>>
       /\ rpc = "done" =>
            \/ /\ response.status = 200
               /\ response.success
               /\ response.method = "direct"
               /\ response.answer = "generated answer"
            \/ /\ response.status = 500
               /\ response.message \in {"Generation failed", "Database error"}
  /\ (rpc = "done" /\ response.method = "vector") =>
       /\ qpc = "returned"
       /\ Len(qResult) >= 1
       /\ usedRAG

C1_Witness ==
  /\ rpc = "done"
  /\ qpc = "failed"
  /\ response.status = 200
  /\ response.method = "direct"
  /\ Len(context) > 0
  /\ Len(context) < Len(docs[req.documentId].textContent.chars)

\* C2: the context the answer generator is called with is never longer than
\* chunkSize * topK, whichever path built it.
C2_ContextBudget ==
  /\ \A k \in 1..Len(genCalls) : Len(genCalls[k]) <= ReqChunkSize * ReqTopK
  /\ rpc \in {"generate", "finish"} => Len(context) <= ReqChunkSize * ReqTopK

C2_Witness ==
  /\ genCalls # <<>>
  /\ usedRAG
  /\ ReqTopK >= 2
  /\ Len(qResult) >= 2
  /\ Len(genCalls[1]) = ReqChunkSize * ReqTopK
  /\ Len(genCalls[1]) > Len(qResult[1].text)

C2_WitnessAllDocuments ==
  /\ genCalls # <<>>
  /\ req.documentId \in {None, "all"}
  /\ Len(rDocuments) = 2
  /\ Len(genCalls[1]) = ReqChunkSize * ReqTopK
  /\ Len(genCalls[1]) > 0

\* C3: queryDocuments asks the index for max(topK, 10) records, and what it
\* returns after a query is the first topK of the matches that carry a
\* non-empty text, in the order of the matches.
C3_FirstTopKWithText ==
  /\ qpc \in {"query", "stats"} \/ (qpc = "returned" /\ qCalls.query > 0) =>
       qOptions.topK = (IF qTopK >= 10 THEN qTopK ELSE 10)
  /\ (qpc = "returned" /\ qCalls.query > 0) =>
       LET good == SelectSeq(qMatches,
                     LAMBDA m : m.metadata.present /\ m.metadata.text # <<>>)
       IN /\ Len(qResult) = (IF qTopK <= Len(good) THEN qTopK ELSE Len(good))
          /\ \A j \in 1..Len(qResult) :
               /\ qResult[j].id = good[j].id
               /\ qResult[j].score = good[j].score
               /\ qResult[j].text = good[j].metadata.text
               /\ qResult[j].text # <<>>

C3_Witness ==
  /\ qpc = "returned"
  /\ qTopK >= 2
  /\ Len(qResult) = qTopK
  /\ Len(qMatches) = 10
  /\ \E k \in 1..qTopK : qMatches[k].metadata.text = <<>>

\* C11: queryDocuments ends in an error when the question is empty or
\* whitespace-only, and has then called neither the embedding provider nor
\* the vector index.
C11_EmptyQuestionFails ==
  (qpc \in {"returned", "failed"} /\ QuestionIsEmpty(qQuestion)) =>
    /\ qpc = "failed"
    /\ qCalls = NoQueryCalls

\* C12: when queryDocuments is given a documentId the options of the index
\* query carry the filter documentId = that id, and every result returned
\* has that metadata.documentId; without a documentId there is no filter.
C12_FilterByDocument ==
  /\ qCalls.embed > 0 /\ qpc # "failed" =>
       qOptions.filter = (IF qDocId # None THEN qDocId ELSE None)
  /\ (qpc = "returned" /\ qDocId # None) =>
       \A j \in 1..Len(qResult) : qResult[j].metadata.documentId = qDocId

C12_Witness ==
  /\ qpc = "returned"
  /\ qDocId = "d1"
  /\ Len(qResult) >= 2
  /\ Len(qMatches) < 10

\* C17: when indexDocument is run again for the same documentId and the same
\* text (the provider embedding it as before), the index holds, throughout
\* and after the second run, exactly the records the first run left.
C17_ReindexIdempotent ==
  (/\ firstRun.done
   /\ iDoc = firstRun.documentId
   /\ iText = firstRun.text
   /\ vectors # <<>> => vectors[1].values.length = firstRun.dim) =>
    index = firstRun.index

C17_Witness ==
  /\ firstRun.done
  /\ ipc = "returned"
  /\ iText = firstRun.text
  /\ iText.n = 2
  /\ vectors[1].values.length = firstRun.dim
  /\ calls.upsert > 0
  /\ index = firstRun.index

\* C16: every call of queryDocuments that awaits the embedding provider or
\* the vector index eventually completes, by returning or by throwing, even
\* if the provider never answers.
C16_QueryCompletes ==
  (qpc \in {"embed", "query", "stats"}) ~> (qpc \in {"returned", "failed"})

(***************************************************************************)
(* The deletion handlers: router.delete('/:id') and                        *)
(* router.post('/bulk-delete') of routes/documents.js, and deleteDocument  *)
(* of controllers/documentController.js.  Specification SpecDelete: one    *)
(* upload, then deletions.                                                 *)
(***************************************************************************)
\* index.deleteMany(vectorIds)
\* variant: every record of the documents the ids belong to is deleted
DeleteFrom_ByDocument(idx, vectorIds) ==
  [id \in {e \in DOMAIN idx :
            \A k \in 1..Len(vectorIds) : e[1] # vectorIds[k][1]} |-> idx[id]]

DeleteFrom(idx, vectorIds) ==
  [id \in (DOMAIN idx) \ SeqRange(vectorIds) |-> idx[id]]

\* Document.deleteOne / deleteMany: the records of ids leave the collection
RemoveDocuments(store, ids) == [d \in (DOMAIN store) \ ids |-> store[d]]

Deleted(route, ids, vectorIds, status) ==
  [route |-> route, ids |-> ids, vectorIds |-> vectorIds, status |-> status]

\* DELETE /api/documents/:id: the vectors are deleted first, an error of
\* that deletion is caught and logged; then the record is deleted
DeleteRoute(userId, documentId) ==
  IF documentId \notin DOMAIN docs \/ docs[documentId].userId # userId
    THEN /\ deletions' = Append(deletions,
                            Deleted("single", {documentId}, <<>>, 404))
         /\ UNCHANGED <<index, docs>>
    ELSE LET vectorIds == docs[documentId].vectorIds IN
         /\ \/ index' = IF Len(vectorIds) > 0 THEN DeleteFrom(index, vectorIds)
                        ELSE index
            \/ Len(vectorIds) > 0 /\ UNCHANGED index
         /\ \/ /\ docs' = RemoveDocuments(docs, {documentId})
               /\ deletions' = Append(deletions,
                     Deleted("single", {documentId}, vectorIds, 200))
            \/ /\ deletions' = Append(deletions,
                     Deleted("single", {documentId}, vectorIds, 500))
               /\ UNCHANGED docs

RECURSIVE VectorIdsOf(_, _)
\* the vectorIds of the documents ids, one after the other
VectorIdsOf(store, ids) ==
  IF ids = {} THEN <<>>
  ELSE LET d == CHOOSE e \in ids : TRUE
       IN store[d].vectorIds \o VectorIdsOf(store, ids \ {d})

\* POST /api/documents/bulk-delete: Document.deleteMany and the response
BulkDelete(userId, documentIds) ==
  IF documentIds = {}
    THEN /\ deletions' = Append(deletions, Deleted("bulk", {}, <<>>, 400))
         /\ UNCHANGED <<index, docs>>
    ELSE LET owned == {d \in documentIds \cap DOMAIN docs :
                         docs[d].userId = userId}
         IN \/ /\ docs' = RemoveDocuments(docs, owned)
               /\ deletions' = Append(deletions,
                     Deleted("bulk", owned, VectorIdsOf(docs, owned), 200))
               /\ UNCHANGED index
            \/ /\ deletions' = Append(deletions,
                     Deleted("bulk", owned, VectorIdsOf(docs, owned), 500))
               /\ UNCHANGED <<index, docs>>

\* exports.deleteDocument: the record is deleted, the index is not touched
ControllerDelete(userId, documentId) ==
  IF documentId \notin DOMAIN docs \/ docs[documentId].userId # userId
    THEN /\ deletions' = Append(deletions,
                            Deleted("controller", {documentId}, <<>>, 404))
         /\ UNCHANGED <<index, docs>>
    ELSE \/ /\ docs' = RemoveDocuments(docs, {documentId})
            /\ deletions' = Append(deletions,
                  Deleted("controller", {documentId},
                          docs[documentId].vectorIds, 200))
            /\ UNCHANGED index
         \/ /\ deletions' = Append(deletions,
                  Deleted("controller", {documentId},
                          docs[documentId].vectorIds, 500))
            /\ UNCHANGED <<index, docs>>

\* at most MaxDeletions deletion requests are made
MaxDeletions == 2

DeleteSteps ==
  /\ upc = "done"
  /\ Len(deletions) < MaxDeletions
  /\ \E userId \in {"u1", "u2"} :
       \/ \E documentId \in DocIds : DeleteRoute(userId, documentId)
       \/ \E documentIds \in SUBSET DocIds : BulkDelete(userId, documentIds)
       \/ \E documentId \in DocIds : ControllerDelete(userId, documentId)
  /\ UNCHANGED <<runVars, queryVars, routeVars, uploadVars, ctlVars,
                 firstRun, runs, sim, health>>

\* the upload before the deletions: a text long enough for every handler
UploadToDelete ==
  /\ \E route \in UploadRoutes, documentId \in DocIds :
       UploadEnter(route, "u1", documentId,
                   MkText(Chars(MinIndexChars + 1), MaxUploadChunks, {}, 1))
  /\ UNCHANGED <<queryVars, routeVars, ctlVars, auxVars>>

NextDelete ==
  \/ UploadToDelete
  \/ UploadSteps
  \/ IndexSteps
       /\ UNCHANGED <<queryVars, routeVars, uploadVars, ctlVars, auxVars, docs>>
  \/ QuerySteps(Pools(MaxRoutePool, MaxRouteBad))
       /\ UNCHANGED <<indexVars, routeVars, uploadVars, ctlVars, auxVars, docs>>
  \/ DeleteSteps

SpecDelete == InitUpload /\ [][NextDelete]_vars

\* C19: after a deletion of documents that was answered with success, the
\* index holds no record whose id is in the vectorIds of a deleted document.
C19_DeletionRemovesVectors ==
  \A k \in 1..Len(deletions) :
    deletions[k].status = 200 =>
      \A id \in SeqRange(deletions[k].vectorIds) : id \notin DOMAIN index

(***************************************************************************)
(* Specification SpecConcurrent: two calls of indexDocument for the same   *)
(* document whose steps interleave at their awaits.  Each run has its own  *)
(* locals, runs[r]; the index is shared.                                   *)
(***************************************************************************)
\* entry of run r: the empty-text check and splitDocument
RunEnter(r, documentId, text) ==
  /\ runs[r].pc = "idle"
  /\ runs' = [runs EXCEPT ![r] =
       [NoRun EXCEPT
          !.documentId = documentId,
          !.text = text,
          !.chunks = IF TextIsEmpty(text) THEN <<>> ELSE SplitText(text),
          !.pc = IF TextIsEmpty(text) \/ Len(SplitText(text)) = 0
                   THEN "failed" ELSE "embed"]]
  /\ UNCHANGED index

\* one iteration of the embedding loop of run r
RunEmbedChunk(r) ==
  /\ runs[r].pc = "embed"
  /\ runs[r].ci < Len(runs[r].chunks)
  /\ LET run == runs[r]
         chunk == run.chunks[run.ci + 1]
     IN IF ChunkIsEmpty(chunk)
          THEN runs' = [runs EXCEPT ![r].ci = @ + 1]
          ELSE \/ runs' = [runs EXCEPT ![r].pc = "failed"]
               \/ \E dim \in EmbedDims :
                    /\ Len(run.vectors) > 0 => run.vectors[1].values.length = dim
                    /\ runs' = [runs EXCEPT
                         ![r].vectors = Append(@,
                            MkVector(run.documentId, run.ci, chunk,
                                     Embedding(chunk, dim))),
                         ![r].ci = @ + 1]
  /\ UNCHANGED index

\* after the loop of run r: the zero-vector check, and the dimension check,
\* which never stops the run
RunEmbedDone(r) ==
  /\ runs[r].pc = "embed"
  /\ runs[r].ci = Len(runs[r].chunks)
  /\ runs' = [runs EXCEPT ![r].pc =
                IF Len(runs[r].vectors) = 0 THEN "failed" ELSE "upsert"]
  /\ UNCHANGED index

\* _batchUpsert of run r: one iteration
RunUpsertBatch(r) ==
  /\ runs[r].pc = "upsert"
  /\ runs[r].batchStart < Len(runs[r].vectors)
  /\ \/ /\ index' = UpsertInto(index,
                       BatchAt(runs[r].vectors, runs[r].batchStart))
        /\ runs' = [runs EXCEPT ![r].batchStart = @ + BATCH_SIZE]
     \/ /\ runs' = [runs EXCEPT ![r].pc = "failed"]
        /\ UNCHANGED index

\* run r returns the ids of its vectors
RunReturn(r) ==
  /\ runs[r].pc = "upsert"
  /\ runs[r].batchStart >= Len(runs[r].vectors)
  /\ runs' = [runs EXCEPT ![r].pc = "returned",
                          ![r].result = IdsOf(runs[r].vectors)]
  /\ UNCHANGED index

\* two texts of the same length, one batch and one record long
ConcurrentTexts ==
  {MkText(<<"a">>, BATCH_SIZE + 1, {}, rev) : rev \in {1, 2}}

InitConcurrent ==
  /\ index = EmptyIndex
  /\ IndexInit
  /\ QueryInit
  /\ RouteInit
  /\ UploadInit
  /\ CtlInit
  /\ AuxInit
  /\ docs = NoDocuments

NextConcurrent ==
  /\ \E r \in Runs :
       \/ \E text \in ConcurrentTexts : RunEnter(r, "d1", text)
       \/ RunEmbedChunk(r)
       \/ RunEmbedDone(r)
       \/ RunUpsertBatch(r)
       \/ RunReturn(r)
  /\ UNCHANGED <<runVars, queryVars, routeVars, uploadVars, ctlVars,
                 firstRun, deletions, sim, health, docs>>

SpecConcurrent == InitConcurrent /\ [][NextConcurrent]_vars

\* the records of run r, as one upsert of them all would leave them
RunRecords(r) == UpsertInto(EmptyIndex, runs[r].vectors)

\* C18: once two interleaved runs of indexDocument for the same documentId
\* have both returned, the records of the index are those of one of the two
\* runs, not a mixture of both.
C18_OneRunAuthoritative ==
  (\A r \in Runs : runs[r].pc = "returned") =>
    \E r \in Runs : index = RunRecords(r)

(***************************************************************************)
(* Properties of the query path (route and controller), under SpecQuery.   *)
(***************************************************************************)
IsBlank(str) == \A k \in 1..Len(str) : str[k] \in {" ", "\n"}

C13_WitnessController ==
  /\ cpc = "done"
  /\ qCalls.query > 0
  /\ qResult = <<>>
  /\ cResponse.answer.kind = "No relevant information found."

\* C14: once the answer generator has been called for a request, the request
\* ends with a 200 response (a generated or a degraded answer), the only
\* exception being a failure of the database call that follows.
C14_GeneratorFailureDegrades ==
  /\ (rpc = "done" /\ genCalls # <<>>) =>
       (response.status = 200 \/ response.message = "Database error")
  /\ (cpc = "done" /\ cGenCalls # <<>>) => cResponse.status = 200

\* the messages of the errors the providers throw
ProviderErrorTexts ==
  {"Generation failed", "Database error", "Embedding failed", "Query failed"}

\* C15: no response of the query path carries the message of an error thrown
\* by a provider.
C15_NoProviderErrorText ==
  /\ rpc = "done" => response.message \notin ProviderErrorTexts
  /\ cpc = "done" => cResponse.message \notin ProviderErrorTexts

\* C20: a request whose settings give a topK or a chunkSize outside its valid
\* range is rejected with status 400 before any retrieval or generation; an
\* absent topK is taken as 3.
C20_SettingsValidated ==
  /\ (rpc = "done"
        /\ ~QuestionIsEmpty(req.question)
        /\ \/ /\ "topK" \in req.settings.given
              /\ (req.settings.topK < TopKMin \/ req.settings.topK > TopKMax)
           \/ /\ "chunkSize" \in req.settings.given
              /\ \/ req.settings.chunkSize < ChunkSizeMin
                 \/ req.settings.chunkSize > ChunkSizeMax) =>
       /\ response.status = 400
       /\ genCalls = <<>>
       /\ qCalls = NoQueryCalls
  /\ (rpc = "awaitRag" /\ "topK" \notin req.settings.given) =>
       qTopK = DefaultTopK

\* where the text of the k-th of the joined chunks starts in the join
RECURSIVE ChunkOffset(_, _)
ChunkOffset(chunkList, k) ==
  IF k = 1 THEN 0
  ELSE ChunkOffset(chunkList, k - 1) + Len(chunkList[k - 1].text)
       + Len(Separator)

\* C21: on the vector path the sources list has exactly one entry for each
\* chunk of which some text is in the context, in order, each with the
\* chunk's score and the first 300 characters of its text plus '...'.
\* (Stated for a context that kept some chunk text after the cut.)
C21_SourcesMatchContext ==
  (/\ usedRAG
   /\ rpc \in {"generate", "finish"}
   /\ VectorContext(qResult, ReqTopK, ReqChunkSize) # <<>>) =>
    LET top == Take(qResult, ReqTopK)
        included == {k \in 1..Len(top) :
                       /\ context = VectorContext(qResult, ReqTopK, ReqChunkSize)
                       /\ ChunkOffset(top, k) < Len(context)}
    IN /\ Len(sources) = Cardinality(included)
       /\ \A k \in 1..Len(sources) :
            /\ k \in included
            /\ sources[k].score = top[k].score
            /\ sources[k].text = Substring0(top[k].text, SourcePreviewLen)
                                   \o <<".", ".", ".">>

(***************************************************************************)
(* Properties of the upload handlers, checked under SpecUpload.            *)
(***************************************************************************)
\* C9: in every upload handler, vectorIds and processedAt of the document
\* (in memory and stored) are set only once indexDocument has returned for
\* that document, and to the ids it returned; when indexDocument has failed,
\* or was not called, the stored record keeps an empty vectorIds and no
\* response reports the document as indexed.
C9_MarkedOnlyAfterIndexing ==
  /\ \A d \in DOMAIN docs :
       (docs[d].vectorIds # <<>> \/ docs[d].processedAt) =>
         /\ ipc = "returned"
         /\ iDoc = d
         /\ docs[d].vectorIds = iResult
         /\ docs[d].processedAt
  /\ (uDocument.vectorIds # <<>> \/ uDocument.processedAt) =>
       /\ ipc = "returned"
       /\ iDoc = uDocId
       /\ uDocument.vectorIds = iResult
  /\ (upc # "idle" /\ ipc # "returned") =>
       /\ ~uResponse.isIndexed
       /\ uResponse.vectorCount = 0
       /\ ~uIndexingSuccess
       /\ \A d \in DOMAIN docs : docs[d].vectorIds = <<>>

C9_Witness ==
  /\ upc = "done"
  /\ ipc = "failed"
  /\ calls.upsert > 0
  /\ uResponse.status = 201
  /\ uDocId \in DOMAIN docs

C9_WitnessIndexed ==
  /\ upc = "done"
  /\ ipc = "returned"
  /\ uDocId \in DOMAIN docs
  /\ docs[uDocId].vectorIds # <<>>
  /\ uResponse.isIndexed

\* C26: every response of the upload route of routes/upload.js that says
\* isIndexed carries no indexing error, and every response that carries an
\* indexing error says not indexed, with the message of a pending indexing.
C26_IndexedMeansNoError ==
  (upc = "done" /\ uRoute = "fixed" /\ uResponse.status = 201) =>
    /\ uResponse.isIndexed => uResponse.indexingError = None
    /\ uResponse.indexingError # None =>
         /\ ~uResponse.isIndexed
         /\ uResponse.message = "Document uploaded (indexing pending)"

\* the documents of one user
OwnDocuments(store, userId) ==
  [d \in {e \in DOMAIN store : store[e].userId = userId} |-> store[d]]

\* C28: the query route works from the requesting user's documents only.  A
\* request naming a document of another user finds nothing and is answered
\* 'No documents found' with no vector query, no generator call and no
\* stored text in the context; the documents found, the direct context and
\* the chunks of the vector path are what they would be if the collection
\* held the user's documents alone.
C28_OwnDocumentsOnly ==
  /\ (/\ rpc # "idle"
      /\ req.documentId \in DOMAIN docs
      /\ docs[req.documentId].userId # req.user) =>
       /\ rpc = "done"
       /\ rDocuments = <<>>
       /\ qCalls = NoQueryCalls
       /\ genCalls = <<>>
       /\ context = <<>>
       /\ sources = <<>>
       /\ response.status \in {400, 200, 500}
       /\ response.status = 200 =>
            /\ ~response.success
            /\ response.message =
                 "No documents found. Please upload documents first."
  /\ rpc # "idle" =>
       /\ \A k \in 1..Len(rDocuments) : docs[rDocuments[k]].userId = req.user
       /\ rDocuments \in
            {<<>>, FindDocuments(OwnDocuments(docs, req.user), req.user,
                                 req.documentId)}
  /\ (rpc \in {"generate", "finish"} /\ ~usedRAG) =>
       context = DirectContext(OwnDocuments(docs, req.user),
                   DocsWithText(OwnDocuments(docs, req.user), rDocuments),
                   req.documentId, ReqTopK, ReqChunkSize)
  /\ usedRAG =>
       /\ docs[req.documentId].userId = req.user
       /\ \A k \in 1..Len(qResult) :
            qResult[k].metadata.documentId = req.documentId

C28_Witness ==
  /\ rpc = "done"
  /\ req.documentId = "d2"
  /\ "d2" \in DOMAIN docs
  /\ docs["d2"].userId = "u2"
  /\ Len(Trim(docs["d2"].textContent.chars)) > 0
  /\ response.status = 200
  /\ response.message = "No documents found. Please upload documents first."

\* a second case: all documents are asked for and another user has one
C28_WitnessAll ==
  /\ rpc = "finish"
  /\ req.documentId = "all"
  /\ "d2" \in DOMAIN docs
  /\ docs["d2"].userId = "u2"
  /\ rDocuments = <<"d1">>
  /\ Len(context) > 0

\* C30: a request without a documentId, or with 'all', never calls
\* queryDocuments; when the user has a document with text the context is the
\* first chunkSize * topK characters of the concatenation of the user's
\* documents with text, and a 200 answer has method 'direct' and no sources.
C30_AllDocumentsDirect ==
  (rpc # "idle" /\ req.documentId \in {None, "all"}) =>
    LET withText == DocsWithText(docs, FindDocuments(docs, req.user, None))
        joined == Join([k \in 1..Len(withText) |->
                          <<"[">> \o docs[withText[k]].originalName
                          \o <<"]", "\n">>
                          \o docs[withText[k]].textContent.chars],
                       Separator)
    IN /\ qpc = "idle"
       /\ qCalls = NoQueryCalls
       /\ ~usedRAG
       /\ sources = <<>>
       /\ rpc \in {"generate", "finish"} =>
            context = Prefix(joined, ReqChunkSize * ReqTopK)
       /\ \A k \in 1..Len(genCalls) :
            genCalls[k] = Prefix(joined, ReqChunkSize * ReqTopK)
       /\ (rpc = "done" /\ response.status = 200 /\ withText # <<>>) =>
            /\ response.success
            /\ response.method = "direct"
            /\ response.sources = <<>>
            /\ Len(genCalls) = 1

C30_Witness ==
  /\ rpc = "done"
  /\ req.documentId = "all"
  /\ response.status = 200
  /\ response.method = "direct"
  /\ Len(rDocuments) = 2
  /\ Len(genCalls[1]) > 0
  /\ Len(genCalls[1]) = ReqChunkSize * ReqTopK

\* finalizeDocument: the record holds the extracted text, the ids the run
\* returned and processedAt
FinalizePersisted ==
  /\ docs[uDocId].textContent = uDocument.textContent
  /\ docs[uDocId].vectorIds = iResult
  /\ iResult # <<>>
  /\ docs[uDocId].processedAt

\* finalizeDocument: the record is as it was created
FinalizeNothingSaved ==
  /\ docs[uDocId].textContent = EmptyText
  /\ docs[uDocId].vectorIds = <<>>
  /\ ~docs[uDocId].processedAt

\* the background task of finalizeDocument has ended
FinalizeOver == uRoute = "finalize" /\ upc = "done" /\ uDocId \in DOMAIN docs

\* C29, as stated: the 201 response of finalizeDocument is sent while the
\* background task still runs, and once the task has ended the record holds
\* text, ids and processedAt exactly when indexDocument succeeded.
C29_PersistedIffIndexed ==
  /\ (uRoute = "finalize" /\ upc = "indexing") => uResponse.status = 201
  /\ FinalizeOver => (FinalizePersisted <=> ipc = "returned")

\* C29, amended: the 201 response is sent while the background task still
\* runs and is not changed by it; once the task has ended the record holds
\* text, ids and processedAt only if indexDocument succeeded, and otherwise
\* nothing of them: after a failure of the run (an empty text included), of
\* the steps before it or of the save after it, no extracted text is stored.
C29_PersistedOnlyIfIndexedAndSaved ==
  /\ (uRoute = "finalize" /\ upc = "indexing") => uResponse.status = 201
  /\ FinalizeOver =>
       /\ uResponse = UploadResponse("finalize", NoUploadDocument, FALSE, None)
       /\ FinalizePersisted \/ FinalizeNothingSaved
       /\ FinalizePersisted => ipc = "returned"
       /\ ipc # "returned" => FinalizeNothingSaved

C29_Witness ==
  /\ FinalizeOver
  /\ ipc = "returned"
  /\ FinalizePersisted
  /\ uResponse.status = 201

\* the run failed on a text that is not empty: the text is not stored
C29_WitnessFailure ==
  /\ FinalizeOver
  /\ ipc = "failed"
  /\ ~TextIsEmpty(uDocument.textContent)
  /\ FinalizeNothingSaved

(***************************************************************************)
(* EmbeddingService.findSimilar and cosineSimilarity.                      *)
(*                                                                         *)
(* A cosine is dotProduct / (sqrt(normA) * sqrt(normB)).  Over vectors of  *)
(* small integers the model keeps it exactly, as the pair                  *)
(*   num = sign(dotProduct) * dotProduct^2,  den = normA * normB,          *)
(* whose order is the order of the quotients; 0 / 0 is NaN.                *)
(***************************************************************************)
SimDefaultTopK == 5

RECURSIVE DotProduct(_, _)
DotProduct(vecA, vecB) ==
  IF Len(vecA) = 0 THEN 0
  ELSE Head(vecA) * Head(vecB) + DotProduct(Tail(vecA), Tail(vecB))

Sign(x) == IF x > 0 THEN 1 ELSE IF x < 0 THEN -1 ELSE 0

\* cosineSimilarity(vecA, vecB) for vectors of the same length
CosineSimilarity(vecA, vecB) ==
  LET dotProduct == DotProduct(vecA, vecB)
      normA == DotProduct(vecA, vecA)
      normB == DotProduct(vecB, vecB)
  IN IF normA * normB = 0
     THEN [nan |-> TRUE, num |-> 0, den |-> 0]
     ELSE [nan |-> FALSE, num |-> Sign(dotProduct) * dotProduct * dotProduct,
           den |-> normA * normB]

\* x < y for two scores that are numbers
ScoreLess(x, y) == x.num * y.den < y.num * x.den

\* the comparator (a, b) => b.score - a.score as sort reads it: a NaN
\* difference counts as 0
CompareFn(a, b) ==
  IF a.score.nan \/ b.score.nan THEN 0
  ELSE IF ScoreLess(b.score, a.score) THEN -1
  ELSE IF ScoreLess(a.score, b.score) THEN 1
  ELSE 0

\* is the comparator consistent on these entries (equality transitive)
ConsistentComparator(results) ==
  \A i, j, k \in 1..Len(results) :
    (CompareFn(results[i], results[j]) = 0
     /\ CompareFn(results[j], results[k]) = 0)
      => CompareFn(results[i], results[k]) = 0

Permutations1(n) ==
  {p \in [1..n -> 1..n] : \A i, j \in 1..n : p[i] = p[j] => i = j}

\* what results.sort(compare) may leave: the stable order when the
\* comparator is consistent, an implementation-defined order otherwise
SortOutcomes(results) ==
  LET n == Len(results)
      stable(p) == \A i, j \in 1..n :
                     i < j =>
                       \/ CompareFn(results[p[i]], results[p[j]]) < 0
                       \/ /\ CompareFn(results[p[i]], results[p[j]]) = 0
                          /\ p[i] < p[j]
  IN {[i \in 1..n |-> results[p[i]]] :
        p \in IF ConsistentComparator(results)
              THEN {q \in Permutations1(n) : stable(q)}
              ELSE Permutations1(n)}

\* documents.map(doc => ({text, score: cosineSimilarity(...)}))
ScoreAll(queryEmbedding, documents) ==
  [i \in 1..Len(documents) |->
     [text |-> documents[i].text,
      score |-> CosineSimilarity(queryEmbedding, documents[i].embedding)]]

SimFail(message) ==
  [sim EXCEPT !.pc = "failed", !.error = message]

\* findSimilar up to the await of embedText; embedText rejects a blank text
\* before it calls the provider
FindSimilarEnter(query, documents, topK) ==
  /\ sim.pc = "idle"
  /\ sim' = IF IsBlank(query)
            THEN [sim EXCEPT !.pc = "failed", !.query = query,
                             !.documents = documents, !.topK = topK,
                             !.error = "Failed to find similar documents: Failed to generate embedding: Text cannot be empty"]
            ELSE [sim EXCEPT !.pc = "embed", !.query = query,
                             !.documents = documents, !.topK = topK,
                             !.embedCalls = @ + 1]

\* the provider failed: embedText wraps the error, findSimilar wraps it again
FindSimilarEmbedFails ==
  /\ sim.pc = "embed"
  /\ sim' = SimFail("Failed to find similar documents: Failed to generate embedding: provider error")

\* the provider answered: score, sort, slice
FindSimilarEmbedReturn(queryEmbedding) ==
  /\ sim.pc = "embed"
  /\ IF \E i \in 1..Len(sim.documents) :
          Len(sim.documents[i].embedding) # Len(queryEmbedding)
     THEN sim' = [SimFail("Failed to find similar documents: Vectors must have the same length")
                    EXCEPT !.queryEmbedding = queryEmbedding]
     ELSE LET results == ScoreAll(queryEmbedding, sim.documents)
          IN \E sorted \in SortOutcomes(results) :
               sim' = [sim EXCEPT !.pc = "returned",
                                  !.queryEmbedding = queryEmbedding,
                                  !.results = results,
                                  !.result = Take(sorted, sim.topK)]

MaxCandidates == 3
MaxSimTopK == 3

\* the embeddings of the candidates and of the query
SimVectors == {<<0, 0>>, <<1, 0>>, <<1, 1>>, <<-1, 0>>, <<1>>}

SimTexts == <<"a", "b", "c", "d", "e">>

SimDocuments ==
  UNION {{[i \in 1..n |-> [text |-> <<SimTexts[i]>>, embedding |-> e[i]]] :
            e \in [1..n -> SimVectors]} : n \in 0..MaxCandidates}

CallFindSimilar ==
  \E query \in {<<>>, <<" ">>, <<"q">>}, documents \in SimDocuments,
     given \in BOOLEAN, k \in 0..MaxSimTopK :
    /\ ~given => k = 0
    /\ FindSimilarEnter(query, documents,
                        IF given THEN k ELSE SimDefaultTopK)

SimFrame ==
  UNCHANGED <<indexVars, queryVars, routeVars, uploadVars, ctlVars,
              firstRun, runs, deletions, health, docs>>

NextSimilar ==
  \/ CallFindSimilar /\ SimFrame
  \/ FindSimilarEmbedFails /\ SimFrame
  \/ (\E v \in SimVectors : FindSimilarEmbedReturn(v)) /\ SimFrame

InitSimilar ==
  /\ index = EmptyIndex
  /\ IndexInit
  /\ QueryInit
  /\ RouteInit
  /\ UploadInit
  /\ CtlInit
  /\ AuxInit
  /\ docs = NoDocuments

SpecSimilar == InitSimilar /\ [][NextSimilar]_vars

\* the place a returned entry had in the input
SimPosition(entry) ==
  CHOOSE i \in 1..Len(sim.documents) : sim.documents[i].text = entry.text

\* C22: a findSimilar call that returns embedded the query exactly once,
\* scored every candidate, and returns min(topK, n) of the scored entries in
\* non-increasing score order, entries of equal score in input order.
C22_RankedTopK ==
  sim.pc = "returned" =>
    LET n == Len(sim.documents)
        out == sim.result
    IN /\ sim.embedCalls = 1
       /\ Len(sim.results) = n
       /\ Len(out) = Min(sim.topK, n)
       /\ \A i \in 1..Len(out) : \E j \in 1..n : out[i] = sim.results[j]
       /\ \A i \in 1..(Len(out) - 1) :
            /\ ~out[i].score.nan
            /\ ~out[i + 1].score.nan
            /\ ~ScoreLess(out[i].score, out[i + 1].score)
            /\ (~ScoreLess(out[i + 1].score, out[i].score))
                 => SimPosition(out[i]) < SimPosition(out[i + 1])

\* C23: no candidate of a findSimilar call that returns was given NaN for
\* its score, whatever the magnitudes of the vectors.
C23_ScoreDefined ==
  sim.pc = "returned" =>
    \A i \in 1..Len(sim.results) : ~sim.results[i].score.nan

(***************************************************************************)
(* The re-index script (scripts/reindex.js): every stored document with a  *)
(* text is indexed again and its vectorIds are overwritten with the ids    *)
(* the run returned.  No handler rewrites a stored textContent; between    *)
(* two runs of the script the stored text may have been replaced in the    *)
(* database, which is the one step of the environment modelled here.       *)
(***************************************************************************)
\* one iteration of the loop up to the await of indexDocument
ReindexEnter(documentId) ==
  /\ upc \in {"idle", "done"}
  /\ ~firstRun.done
  /\ documentId \in DOMAIN docs
  /\ Len(docs[documentId].textContent.chars) > 0
  /\ firstRun' = IF upc = "idle" THEN firstRun
                 ELSE [done |-> TRUE, documentId |-> iDoc, text |-> iText,
                       index |-> index,
                       dim |-> IF Len(vectors) > 0
                               THEN vectors[1].values.length ELSE 0]
  /\ IndexDocumentEnter(documentId, docs[documentId].textContent)
  /\ upc' = "indexing"
  /\ uRoute' = "reindex"
  /\ uDocId' = documentId
  /\ UNCHANGED <<uDocument, uIndexingSuccess, uIndexingError, uResponse,
                 docs>>

\* indexDocument returned: d.vectorIds = ids, d.processedAt, d.save(); an
\* error of the run or of the save is caught and logged
ReindexReturn ==
  /\ upc = "indexing"
  /\ uRoute = "reindex"
  /\ ipc \in {"returned", "failed"}
  /\ upc' = "done"
  /\ \/ /\ ipc = "returned"
        /\ uDocId \in DOMAIN docs
        /\ docs' = [docs EXCEPT ![uDocId].vectorIds = iResult,
                                ![uDocId].processedAt = TRUE]
     \/ UNCHANGED docs
  /\ UNCHANGED <<uRoute, uDocId, uDocument, uIndexingSuccess, uIndexingError,
                 uResponse>>

\* the environment: the stored text of a document is replaced
TextReplaced(documentId, text) ==
  /\ upc = "done"
  /\ ~firstRun.done
  /\ documentId \in DOMAIN docs
  /\ docs[documentId].textContent # text
  /\ docs' = [docs EXCEPT ![documentId].textContent = text]

MaxStaleChunks == 2

StaleTexts ==
  {MkText(<<"a">>, n, blanks, 1) :
     n \in 1..MaxStaleChunks, blanks \in {{}, {0}}}

\* a document stored by an upload whose indexing had failed
InitStale ==
  /\ index = EmptyIndex
  /\ IndexInit
  /\ QueryInit
  /\ RouteInit
  /\ UploadInit
  /\ CtlInit
  /\ AuxInit
  /\ \E text \in StaleTexts :
       docs = [d \in {"d1"} |-> MkDocument("u1", <<"F">>, text, 1)]

NextStale ==
  \/ /\ \E documentId \in DocIds : ReindexEnter(documentId)
     /\ UNCHANGED <<queryVars, routeVars, ctlVars, runs, deletions, sim,
                    health>>
  \/ /\ ReindexReturn
     /\ UNCHANGED <<indexVars, queryVars, routeVars, ctlVars, auxVars>>
  \/ /\ \E documentId \in DocIds, text \in StaleTexts :
          TextReplaced(documentId, text)
     /\ UNCHANGED <<indexVars, queryVars, routeVars, uploadVars, ctlVars,
                    auxVars>>
  \/ IndexSteps
       /\ UNCHANGED <<queryVars, routeVars, uploadVars, ctlVars, auxVars, docs>>
  \/ /\ Len(deletions) < 1
     /\ \E userId \in Users, documentId \in DocIds :
          DeleteRoute(userId, documentId)
     /\ UNCHANGED <<runVars, queryVars, routeVars, uploadVars, ctlVars,
                    firstRun, runs, sim, health>>

SpecStale == InitStale /\ [][NextStale]_vars

\* the records the previous run stored for chunks the new text no longer has
StaleIds ==
  {id \in DOMAIN firstRun.index :
     id[1] = firstRun.documentId /\ id[3] >= Len(SplitText(iText))}

\* the second run is over and was of the same document with fewer chunks
ReindexedShorter ==
  /\ firstRun.done
  /\ upc = "done"
  /\ ipc = "returned"
  /\ iDoc = firstRun.documentId
  /\ Len(SplitText(iText)) < Len(SplitText(firstRun.text))

\* every deletion that removed the document came after the re-index: it
\* named the ids the re-index stored
DeletedLater ==
  \A k \in 1..Len(deletions) :
    deletions[k].status = 404 \/ deletions[k].vectorIds = iResult

\* C24: after a re-index with fewer chunks the records of the previous run
\* for the chunk positions the new text no longer has are still in the
\* index, unchanged; the document's vectorIds name none of them, and they
\* are still there after a later deletion of the document.
C24_StaleRecordsSurvive ==
  (ReindexedShorter /\ DeletedLater) =>
    /\ \A id \in StaleIds :
         id \in DOMAIN index /\ index[id] = firstRun.index[id]
    /\ \A d \in DOMAIN docs :
         (d = iDoc /\ docs[d].vectorIds = iResult) =>
           SeqRange(docs[d].vectorIds) \cap StaleIds = {}

C24_Witness ==
  /\ ReindexedShorter
  /\ StaleIds # {}
  /\ Len(deletions) = 1
  /\ deletions[1].status = 200
  /\ deletions[1].vectorIds = iResult
  /\ iDoc \notin DOMAIN docs
  /\ StaleIds \subseteq DOMAIN index

(***************************************************************************)
(* GET /api/health, as server.js has it and as routes/health.js has it,    *)
(* and RAGService.healthCheck.                                             *)
(***************************************************************************)
HealthHandlers == {"server", "routes"}

\* the Pinecone test begins: require, then healthCheck up to its first await
\* (embedQuery); an error of the require is caught by the handler
PineconeTest(h) ==
  {[h EXCEPT !.pc = "embed", !.called = TRUE, !.embedCalls = @ + 1],
   [h EXCEPT !.pc = "respond", !.pinecone = "error: require failed"]}

\* the handler up to its first await: the health object, and the probe of
\* the answer generator when its key is configured
HealthEnter(handler, mongodb, configured) ==
  /\ health.pc = "idle"
  /\ LET h == [health EXCEPT !.handler = handler, !.mongodb = mongodb] IN
       IF configured
         THEN health' = [h EXCEPT !.pc = "generator"]
         ELSE health' \in
                PineconeTest([h EXCEPT !.generator = "not_configured"])

\* the race of the generator probe and the 5 s timer is over
HealthGeneratorReturn(outcome) ==
  /\ health.pc = "generator"
  /\ health' \in PineconeTest([health EXCEPT !.generator = outcome])

\* healthCheck: embedQuery('test') returned or threw
HealthEmbedReturn(ok) ==
  /\ health.pc = "embed"
  /\ health' = IF ok
               THEN [health EXCEPT !.pc = "stats", !.embedOk = TRUE,
                                   !.statsCalls = @ + 1]
               ELSE [health EXCEPT !.pc = "respond", !.healthy = FALSE]

\* healthCheck: describeIndexStats returned or threw
HealthStatsReturn(ok) ==
  /\ health.pc = "stats"
  /\ health' = [health EXCEPT !.pc = "respond", !.statsOk = ok,
                              !.healthy = ok]

\* what the handler writes to health.services.pinecone once healthCheck
\* has returned
PineconeStatus(handler, healthy) ==
  IF handler = "server"
    THEN (IF healthy THEN "connected" ELSE "error")
    ELSE "connected"

\* the Pinecone test is over: res.json(health)
HealthRespond ==
  /\ health.pc = "respond"
  /\ health' = [health EXCEPT
                  !.pc = "done", !.sent = TRUE,
                  !.pinecone = IF health.called
                               THEN PineconeStatus(health.handler,
                                                   health.healthy)
                               ELSE @]

HealthFrame ==
  UNCHANGED <<indexVars, queryVars, routeVars, uploadVars, ctlVars,
              firstRun, runs, deletions, sim, docs>>

NextHealth ==
  \/ /\ \E handler \in HealthHandlers,
          mongodb \in {"connected", "disconnected"}, configured \in BOOLEAN :
          HealthEnter(handler, mongodb, configured)
     /\ HealthFrame
  \/ /\ \E outcome \in {"connected", "error: provider error",
                        "error: timeout"} : HealthGeneratorReturn(outcome)
     /\ HealthFrame
  \/ (\E ok \in BOOLEAN : HealthEmbedReturn(ok)) /\ HealthFrame
  \/ (\E ok \in BOOLEAN : HealthStatsReturn(ok)) /\ HealthFrame
  \/ HealthRespond /\ HealthFrame

SpecHealth == InitSimilar /\ [][NextHealth]_vars

\* C27: a health response reports the vector index 'connected' only when
\* healthCheck was called and returned true, that is when the embedding
\* probe and the index-stats call both succeeded; healthCheck returns false
\* when either failed.
C27_ConnectedOnlyWhenHealthy ==
  /\ (health.sent /\ health.pinecone = "connected") =>
       /\ health.called
       /\ health.healthy
       /\ health.embedOk
       /\ health.statsOk
  /\ (health.called /\ health.pc \in {"respond", "done"}) =>
       (health.healthy <=> (health.embedOk /\ health.statsOk))


==============================================================================
